---- MODULE Spec2Model ----
(***************************************************************************)
(* A model of the innsight-flask recommendation pipeline: the retry and    *)
(* stale-fallback wrappers around the isochrone transport (ors_client.py), *)
(* the isochrone service, the pipeline result cache and Recommender.run    *)
(* (pipeline.py).                                                          *)
(*                                                                         *)
(* Python dicts are modelled as sequences of entries in insertion order    *)
(* (a dict iterates, and min()/sorted() break ties, in that order).        *)
(* Wall-clock time is the integer variable now, in abstract ticks; the     *)
(* TTLs and capacities of config.py are scaled down to a few ticks and a   *)
(* few entries.                                                            *)
(***************************************************************************)
EXTENDS Integers, Sequences, FiniteSets, TLC

VARIABLES
    now,        \* time.time(), in ticks
    fbCache,    \* ors_client._fallback_cache: insertion-ordered entries [k, val, ts]
    ors,        \* the isochrone service call in flight (position, locals, history)
    cache,      \* Recommender._cache: insertion-ordered entries [k, val, ts, oid, put]
    cstat,      \* Recommender._last_cleanup_time, _cache_hits, _cache_misses, _parsing_failures
    caller,     \* what a caller of the result cache holds: the R it put, the value it got
    run,        \* the Recommender.run call in flight (position, locals, history)
    conc,       \* concurrent requests: each thread's position in a cache operation
    fn,         \* the latest call of a function taken on its own: name, arguments, result
    app         \* the HTTP application create_app built: limiter storage, last response

(***************************************************************************)
(* Bounds of the model.                                                    *)
(***************************************************************************)
MaxTime == 3          \* the clock stops advancing here
NumCoords == 2        \* distinct coordinates a call can be made for
FbMaxSize == 1        \* fallback_cache(maxsize=...), scaled down from 128
FbTtl == 2            \* fallback_cache(ttl_hours=...), in ticks, scaled down from 24 h
NumKeys == 2          \* distinct result-cache keys
CacheMaxSize == 1     \* recommender_cache_maxsize, scaled down from 20
CacheTtl == 2         \* recommender_cache_ttl_seconds, in ticks, scaled down from 1800 s
CleanupInterval == 2  \* recommender_cache_cleanup_interval, in ticks, scaled down from 60 s
MaxTop == 2           \* candidates in a result's top list
MaxLookups == 2       \* cache lookups in a behaviour
MaxPuts == 2          \* cache stores in a behaviour
MaxMutations == 1     \* in-place mutations a caller makes in a behaviour
MaxRuns == 2          \* calls of Recommender.run in a behaviour
NumProcs == 2         \* requests served concurrently
MaxGroups == 3        \* groups in an isochrone list given to assign_tiers
MaxRatingSeen == 7    \* the largest rating a POI's tags carry
MaxNumeral == 22      \* the largest number written in a text
MaxTokens == 3        \* tokens in a list given to an extractor
TicksPerMinute == 2   \* ticks of the application's clock in a minute
MaxAppTime == 3       \* the application's clock stops advancing here
MaxLimit == 3         \* the largest per-minute limit a test configuration sets
MaxOver == 2          \* requests of one address followed beyond its limit
MaxConcOps == 2       \* cache operations of one concurrent request

(***************************************************************************)
(* Program constants.                                                      *)
(***************************************************************************)
DEFAULT_MAX_ATTEMPTS == 3
DEFAULT_RETRY_DELAY == 1
DEFAULT_BACKOFF_MULTIPLIER == 2

Coords == 1..NumCoords
None == "None"

(***************************************************************************)
(* dict helpers: a dict is a sequence of records with a key field k, in    *)
(* insertion order.                                                        *)
(***************************************************************************)
DictKeys(d) == {d[i].k : i \in 1..Len(d)}

DictHas(d, key) == key \in DictKeys(d)

DictIdx(d, key) == CHOOSE i \in 1..Len(d) : d[i].k = key

DictGet(d, key) == d[DictIdx(d, key)]

\* d[key] = entry: an existing key keeps its position, a new key goes last
DictSet(d, entry) ==
    IF DictHas(d, entry.k)
    THEN [d EXCEPT ![DictIdx(d, entry.k)] = entry]
    ELSE Append(d, entry)

RECURSIVE SeqFilter(_, _)
SeqFilter(s, keep) ==
    IF s = <<>> THEN <<>>
    ELSE IF Head(s).k \in keep
         THEN <<Head(s)>> \o SeqFilter(Tail(s), keep)
         ELSE SeqFilter(Tail(s), keep)

\* the entries of s at the indexes of idx, in order
KeepAt(s, idx) ==
    LET f[n \in 0..Len(s)] ==
            IF n = 0 THEN <<>>
            ELSE IF n \in idx THEN Append(f[n - 1], s[n]) ELSE f[n - 1]
    IN  f[Len(s)]

\* d.pop(key, None) for every key of gone
DictDelAll(d, gone) == SeqFilter(d, DictKeys(d) \ gone)

\* min(d.keys(), key=lambda k: d[k].ts): the first entry with the least timestamp
DictOldestKey(d) ==
    LET i == CHOOSE i \in 1..Len(d) :
                 /\ \A j \in 1..Len(d) : d[i].ts <= d[j].ts
                 /\ \A j \in 1..(i - 1) : d[j].ts > d[i].ts
    IN  d[i].k

(***************************************************************************)
(* The isochrone transport (requests.post in _fetch_isochrones_from_api).  *)
(* A polygon is the set of grid cells it covers; a payload is the list of  *)
(* polygons of the response, innermost first.                              *)
(***************************************************************************)
PolyA == << {1}, {1, 2}, {1, 2, 3} >>
PolyB == << {2}, {2, 3}, {1, 2, 3} >>
IsoPayloads == {PolyA, PolyB}

HttpStatuses == {404, 429, 500}

Outcome(kind, status, payload, cacheWord) ==
    [kind |-> kind, status |-> status, payload |-> payload, cacheWord |-> cacheWord]

\* What one transport attempt can end with.  cacheWord: the upstream error
\* message of an API error contains the word "cache".
Outcomes ==
    {Outcome("ok", 200, p, FALSE) : p \in IsoPayloads}
    \cup {Outcome("Timeout", 0, <<>>, FALSE), Outcome("ConnectionError", 0, <<>>, FALSE),
          Outcome("JSONDecodeError", 200, <<>>, FALSE)}
    \cup {Outcome("HTTPError", s, <<>>, FALSE) : s \in HttpStatuses}
    \cup {Outcome("APIError", 200, <<>>, w) : w \in BOOLEAN}

Retryable(status) == status = 429 \/ (500 <= status /\ status < 600)

IsTransient(o) ==
    \/ o.kind \in {"Timeout", "ConnectionError", "JSONDecodeError"}
    \/ o.kind = "HTTPError" /\ Retryable(o.status)

(***************************************************************************)
(* retry_on_network_error: one iteration of the loop, attempt counted from *)
(* 0, the transport having ended with outcome o.                           *)
(*   act = "return": the wrapper returns the payload                       *)
(*   act = "raise" : the wrapper raises err                                *)
(*   act = "sleep" : the wrapper sleeps and goes round again               *)
(***************************************************************************)
\* (a variant that also retries an HTTP error of any other status)
RetryStep_RetryAll(attempt, o) ==
    IF o.kind = "ok" THEN [act |-> "return", err |-> None]
    ELSE IF o.kind = "APIError" THEN [act |-> "raise", err |-> "APIError"]
    ELSE IF attempt = DEFAULT_MAX_ATTEMPTS - 1
         THEN [act |-> "raise",
               err |-> IF o.kind = "JSONDecodeError" THEN "ConnectionError" ELSE o.kind]
    ELSE [act |-> "sleep", err |-> None]

RetryStep(attempt, o) ==
    IF o.kind = "ok" THEN [act |-> "return", err |-> None]
    ELSE IF o.kind = "APIError" THEN [act |-> "raise", err |-> "APIError"]
    ELSE IF o.kind = "HTTPError" /\ ~Retryable(o.status)
         THEN [act |-> "raise", err |-> "HTTPError"]
    ELSE IF attempt = DEFAULT_MAX_ATTEMPTS - 1
         THEN [act |-> "raise",
               err |-> IF o.kind = "JSONDecodeError" THEN "ConnectionError" ELSE o.kind]
    ELSE [act |-> "sleep", err |-> None]

\* lines 73-74: current_delay *= backoff, after the sleep
\* (a variant without backoff)
NextDelay_Constant(current_delay) == current_delay

NextDelay(current_delay) == current_delay * DEFAULT_BACKOFF_MULTIPLIER

(***************************************************************************)
(* fallback_cache.wrapper.                                                 *)
(***************************************************************************)
\* lines 99-105: a cached entry that is still fresh
\* (a variant that takes no entry for fresh)
FbFresh_Never(fb, key, t) == FALSE

FbFresh(fb, key, t) ==
    DictHas(fb, key) /\ t - DictGet(fb, key).ts <= FbTtl

\* lines 111-128: the call succeeded with result; t is the time read at entry
\* (a variant whose capacity eviction takes the newest entry)
FbStore_EvictsNewest(fb, key, result, t) ==
    LET d1 == DictSet(fb, [k |-> key, val |-> result, ts |-> t])
        expired == {d1[i].k : i \in {j \in 1..Len(d1) : t - d1[j].ts > FbTtl}}
        d2 == DictDelAll(d1, expired)
        newest == CHOOSE i \in 1..Len(d2) : \A j \in 1..Len(d2) : d2[j].ts <= d2[i].ts
    IN  IF Len(d1) > FbMaxSize
        THEN IF Len(d2) > FbMaxSize
             THEN DictDelAll(d2, {d2[newest].k})
             ELSE d2
        ELSE d1

FbStore(fb, key, result, t) ==
    LET d1 == DictSet(fb, [k |-> key, val |-> result, ts |-> t])
        expired == {d1[i].k : i \in {j \in 1..Len(d1) : t - d1[j].ts > FbTtl}}
        d2 == DictDelAll(d1, expired)
    IN  IF Len(d1) > FbMaxSize
        THEN IF Len(d2) > FbMaxSize
             THEN DictDelAll(d2, {DictOldestKey(d2)})
             ELSE d2
        ELSE d1

\* What the wrapper catches (line 132).
\* (a variant that catches the API error too)
FbCaught_WithApiError ==
    {"Timeout", "ConnectionError", "HTTPError", "JSONDecodeError", "APIError"}

FbCaught == {"Timeout", "ConnectionError", "HTTPError", "JSONDecodeError"}

Ret(kind, val, err) == [kind |-> kind, val |-> val, err |-> err]

\* lines 132-147: the call raised err
\* (a variant that never serves the stale entry)
FbOnError_NoStale(fb, key, err) ==
    IF err \in FbCaught
    THEN Ret("raise", <<>>, "IsochroneError")
    ELSE Ret("raise", <<>>, err)

FbOnError(fb, key, err) ==
    IF err \in FbCaught
    THEN IF DictHas(fb, key)
         THEN Ret("value", DictGet(fb, key).val, None)
         ELSE Ret("raise", <<>>, "IsochroneError")
    ELSE Ret("raise", <<>>, err)

(***************************************************************************)
(* The call in flight.  pc:                                                *)
(*   "idle"    no call has been made                                       *)
(*   "attempt" inside the retry loop, about to invoke the transport        *)
(*   "wrapped" _fetch_isochrones_from_api has returned or raised into      *)
(*             IsochroneService.get_isochrones_with_fallback               *)
(*   "done"    get_isochrones_with_fallback has returned svcRet            *)
(* History kept for the properties, per wrapper invocation: n, the         *)
(* transport attempts made; last, the outcome of the latest one; extra,    *)
(* whether an attempt followed one that was not a transient failure;       *)
(* retryErr, what retry_on_network_error raised; sleeps, the delays slept; *)
(* pre, the fallback cache at entry.  total counts the transport           *)
(* invocations of the whole service call.                                  *)
(***************************************************************************)
NoOutcome == Outcome("none", 0, <<>>, FALSE)

OrsIdle ==
    [pc |-> "idle", key |-> 0, t0 |-> 0, attempt |-> 0, delay |-> 0, svcTry |-> 0,
     n |-> 0, last |-> NoOutcome, extra |-> FALSE, retryErr |-> None,
     sleeps |-> <<>>, total |-> 0, pre |-> <<>>,
     wrapRet |-> Ret("none", <<>>, None), cacheWord |-> FALSE,
     svcRet |-> Ret("none", <<>>, None)]

\* fallback_cache.wrapper, lines 93-109, entered for key at time t
WrapperEnter(o, fb, key, t, try, total) ==
    IF FbFresh(fb, key, t)
    THEN [o EXCEPT !.pc = "wrapped", !.key = key, !.t0 = t, !.svcTry = try,
                   !.attempt = 0, !.delay = DEFAULT_RETRY_DELAY,
                   !.n = 0, !.last = NoOutcome, !.extra = FALSE, !.retryErr = None,
                   !.sleeps = <<>>, !.total = total, !.pre = fb,
                   !.wrapRet = Ret("value", DictGet(fb, key).val, None),
                   !.cacheWord = FALSE]
    ELSE [o EXCEPT !.pc = "attempt", !.key = key, !.t0 = t, !.svcTry = try,
                   !.attempt = 0, !.delay = DEFAULT_RETRY_DELAY,
                   !.n = 0, !.last = NoOutcome, !.extra = FALSE, !.retryErr = None,
                   !.sleeps = <<>>, !.total = total, !.pre = fb,
                   !.wrapRet = Ret("none", <<>>, None),
                   !.cacheWord = FALSE]

\* IsochroneService.get_isochrones_with_fallback -> get_isochrones_by_minutes
\* -> _fetch_isochrones_from_api, for the coordinate coord
SvcCall(coord) ==
    /\ ors.pc \in {"idle", "done"}
    /\ ors' = WrapperEnter(OrsIdle, fbCache, coord, now, 1, 0)
    /\ UNCHANGED <<now, fbCache>>

\* One pass of the retry loop: the transport is invoked and ends with o.
TransportAttempt(o) ==
    /\ ors.pc = "attempt"
    /\ LET step == RetryStep(ors.attempt, o)
           seen == [ors EXCEPT !.n = @ + 1, !.last = o, !.total = @ + 1,
                               !.extra = @ \/ (ors.n > 0 /\ ~IsTransient(ors.last))]
       IN  CASE step.act = "return" ->
                  /\ fbCache' = FbStore(fbCache, ors.key, o.payload, ors.t0)
                  /\ ors' = [seen EXCEPT !.pc = "wrapped",
                                         !.wrapRet = Ret("value", o.payload, None)]
             [] step.act = "raise" ->
                  /\ fbCache' = fbCache
                  /\ ors' = [seen EXCEPT !.pc = "wrapped", !.retryErr = step.err,
                                         !.wrapRet = FbOnError(fbCache, ors.key, step.err),
                                         !.cacheWord = o.cacheWord]
             [] step.act = "sleep" ->
                  /\ fbCache' = fbCache
                  /\ ors' = [seen EXCEPT !.attempt = @ + 1,
                                         !.sleeps = Append(@, ors.delay),
                                         !.delay = NextDelay(@)]
    /\ UNCHANGED now

\* "cache" in str(e).lower(), isochrone_service.py line 21
MentionsCache(ret, cacheWord) ==
    \/ ret.err = "IsochroneError"
    \/ ret.err = "APIError" /\ cacheWord

\* get_isochrones_by_minutes, ors_client.py line 233: [[polygon] for polygon in ...]
ByMinutes(polygons) == [i \in 1..Len(polygons) |-> <<polygons[i]>>]

\* get_isochrones_with_fallback, lines 17-28, once the wrapped call is back
SvcReturn ==
    /\ ors.pc = "wrapped"
    /\ IF ors.wrapRet.kind = "value"
       THEN ors' = [ors EXCEPT !.pc = "done",
                               !.svcRet = Ret("value", ByMinutes(ors.wrapRet.val), None)]
       ELSE IF ors.svcTry = 1 /\ MentionsCache(ors.wrapRet, ors.cacheWord)
            THEN ors' = WrapperEnter(ors, fbCache, ors.key, now, 2, ors.total)
            ELSE ors' = [ors EXCEPT !.pc = "done", !.svcRet = Ret("None", <<>>, None)]
    /\ UNCHANGED <<now, fbCache>>

(***************************************************************************)
(* The pipeline result cache (pipeline.py, lines 460-592).                 *)
(*                                                                         *)
(* A result is the dict run builds: stats, top (a list of candidate        *)
(* records), main_poi, isochrone_geometry, intervals.  Python objects are  *)
(* shared by reference: every stored or handed-out result carries oid, the *)
(* identity of the objects its parts are; two holders with the same oid    *)
(* hold the same stats dict, the same candidate records, and so on.        *)
(***************************************************************************)
Min(a, b) == IF a <= b THEN a ELSE b

\* s[:n], n >= 0
Take(s, n) == SubSeq(s, 1, Min(n, Len(s)))

Cand(id, score, tier) == [osmid |-> id, score |-> score, tier |-> tier]

\* _calculate_tier_stats, lines 317-330
TierCount(top, t) == Cardinality({i \in 1..Len(top) : top[i].tier = t})

CalculateTierStats(top) ==
    [tier_0 |-> TierCount(top, 0), tier_1 |-> TierCount(top, 1),
     tier_2 |-> TierCount(top, 2), tier_3 |-> TierCount(top, 3)]

ZeroStats == [tier_0 |-> 0, tier_1 |-> 0, tier_2 |-> 0, tier_3 |-> 0]

Result(stats, top, poi, geometry, intervals) ==
    [stats |-> stats, top |-> top, main_poi |-> poi,
     isochrone_geometry |-> geometry, intervals |-> intervals]

\* config.default_isochrone_intervals
DefaultIntervals == <<15, 30, 60>>

SampleTop == << Cand(1, 90, 3), Cand(2, 70, 2), Cand(3, 50, 0), Cand(4, 40, 0) >>

\* results as run builds them, for the callers of the cache
SampleResults ==
    {Result(CalculateTierStats(Take(SampleTop, l)), Take(SampleTop, l),
            [name |-> "poi", lat |-> 1, lon |-> 1], PolyA, DefaultIntervals)
        : l \in (MaxTop - 1)..Min(MaxTop, Len(SampleTop))}

CacheKeys == 1..NumKeys

\* the parts of a result a caller can mutate in place
Parts == {"stats", "top", "cand", "main_poi", "isochrone_geometry", "intervals"}

\* an in-place mutation of one part of a result value (i: the candidate, for "cand")
ApplyMut(val, part, i) ==
    CASE part = "stats" -> [val EXCEPT !.stats.tier_0 = 99]
      [] part = "top" -> [val EXCEPT !.top = <<>>]
      [] part = "cand" ->
            IF i \in 1..Len(val.top) THEN [val EXCEPT !.top[i].score = 0] ELSE val
      [] part = "main_poi" -> [val EXCEPT !.main_poi.name = "changed"]
      [] part = "isochrone_geometry" -> [val EXCEPT !.isochrone_geometry = <<>>]
      [] part = "intervals" -> [val EXCEPT !.intervals = <<>>]

\* the mutation as seen through every cache entry made of the same objects
MutateShared(c, oid, part, i) ==
    [j \in 1..Len(c) |->
        IF c[j].oid = oid THEN [c[j] EXCEPT !.val = ApplyMut(@, part, i)] ELSE c[j]]

\* (a variant that removes from the newest end)
EvictOldest_Newest(d, n) ==
    LET newest == CHOOSE i \in 1..Len(d) : \A j \in 1..Len(d) : d[j].ts <= d[i].ts
    IN  IF n <= 0 \/ d = <<>> THEN d ELSE DictDelAll(d, {d[newest].k})

RECURSIVE EvictOldest(_, _)
\* lines 563-573: delete the first n entries of sorted(items, key=timestamp)
EvictOldest(d, n) ==
    IF n <= 0 \/ d = <<>> THEN d
    ELSE EvictOldest(DictDelAll(d, {DictOldestKey(d)}), n - 1)

\* _cleanup_cache, lines 542-575, at time t; last is _last_cleanup_time
\* (a variant without the throttle)
CleanupCache_Unthrottled(c, t, last) ==
    LET expired == {c[i].k : i \in {j \in 1..Len(c) : t - c[j].ts > CacheTtl}}
        c1 == DictDelAll(c, expired)
        c2 == IF Len(c1) > CacheMaxSize
              THEN EvictOldest(c1, Len(c1) - CacheMaxSize)
              ELSE c1
    IN  [cache |-> c2, last |-> t, ran |-> TRUE]

CleanupCache(c, t, last) ==
    IF t - last < CleanupInterval
    THEN [cache |-> c, last |-> last, ran |-> FALSE]
    ELSE LET expired == {c[i].k : i \in {j \in 1..Len(c) : t - c[j].ts > CacheTtl}}
             c1 == DictDelAll(c, expired)
             c2 == IF Len(c1) > CacheMaxSize
                   THEN EvictOldest(c1, Len(c1) - CacheMaxSize)
                   ELSE c1
         IN  [cache |-> c2, last |-> t, ran |-> TRUE]

Miss == [kind |-> "miss", key |-> 0, n |-> 0, oid |-> 0, val |-> <<>>,
         shared |-> {}, touched |-> {}, asPut |-> TRUE, same |-> TRUE]

NoRet == [Miss EXCEPT !.kind = "none"]

\* lines 512-519: the dict a hit returns.  Its top is a new list (a slice); the
\* candidate records in it and the other four parts are the cached objects.
HitValue(e, key, top_n) ==
    [kind |-> "hit", key |-> key, n |-> top_n, oid |-> e.oid,
     val |-> [stats |-> e.val.stats,
              top |-> Take(e.val.top, top_n),
              main_poi |-> e.val.main_poi,
              isochrone_geometry |-> e.val.isochrone_geometry,
              intervals |-> e.val.intervals],
     shared |-> {"stats", "cand", "main_poi", "isochrone_geometry", "intervals"},
     touched |-> {}, asPut |-> TRUE, same |-> TRUE]

\* _get_from_cache, lines 470-519.  t1 is the time read at line 484, t2 the time
\* read by _cleanup_cache; st is cstat.
\* (a variant that leaves the expired entry to the cleanup)
GetFromCache_LeavesExpired(c, st, key, top_n, t1, t2) ==
    LET cl == CleanupCache(c, t2, st.last_cleanup_time)
    IN  IF DictHas(c, key) /\ t1 - DictGet(c, key).ts <= CacheTtl
        THEN [ret |-> HitValue(DictGet(c, key), key, top_n), cache |-> cl.cache,
              ran |-> cl.ran,
              st |-> [st EXCEPT !.cache_hits = @ + 1, !.last_cleanup_time = cl.last]]
        ELSE [ret |-> Miss, cache |-> cl.cache, ran |-> cl.ran,
              st |-> [st EXCEPT !.cache_misses = @ + 1, !.last_cleanup_time = cl.last]]

GetFromCache(c, st, key, top_n, t1, t2) ==
    IF ~DictHas(c, key)
    THEN LET cl == CleanupCache(c, t2, st.last_cleanup_time)
         IN  [ret |-> Miss, cache |-> cl.cache, ran |-> cl.ran,
              st |-> [st EXCEPT !.cache_misses = @ + 1, !.last_cleanup_time = cl.last]]
    ELSE LET e == DictGet(c, key)
         IN  IF t1 - e.ts > CacheTtl
             THEN LET cl == CleanupCache(DictDelAll(c, {key}), t2, st.last_cleanup_time)
                  IN  [ret |-> Miss, cache |-> cl.cache, ran |-> cl.ran,
                       st |-> [st EXCEPT !.cache_misses = @ + 1,
                                         !.last_cleanup_time = cl.last]]
             ELSE LET cl == CleanupCache(c, t2, st.last_cleanup_time)
                  IN  [ret |-> HitValue(e, key, top_n), cache |-> cl.cache, ran |-> cl.ran,
                       st |-> [st EXCEPT !.cache_hits = @ + 1,
                                         !.last_cleanup_time = cl.last]]

\* _save_to_cache, lines 529-530: copy.deepcopy(result) makes new objects (oid);
\* put records the value of result at this moment
SaveToCache(c, key, val, t, oid) ==
    DictSet(c, [k |-> key, val |-> val, ts |-> t, oid |-> oid, put |-> val])

CstatInit ==
    [last_cleanup_time |-> 0, cache_hits |-> 0, cache_misses |-> 0,
     parsing_failures |-> 0]

\* The caller of the cache: R, the result object it last put (none: oid 0); ret,
\* what its latest lookup returned, with touched, the parts of it the caller
\* mutated since, asPut, whether it was the value put under the key, cut to the
\* limit, and same, whether it equals what the lookup before returned for the
\* same stored object and limit; oids, the object identities handed out so far;
\* muts, the in-place mutations made so far.
CallerInit ==
    [R |-> [oid |-> 0, val |-> <<>>], ret |-> NoRet, oids |-> 0, muts |-> 0]

\* the value put, as a lookup with limit top_n is to return it
PutValue(e, top_n) == [e.put EXCEPT !.top = Take(@, top_n)]

SameAsBefore(old, new) ==
    (old.kind = "hit" /\ new.kind = "hit" /\ old.oid = new.oid /\ old.n = new.n)
        => new.val = old.val

\* the first time.time() of the process: _last_cleanup_time = 0 is long past
StartTime == CleanupInterval

\* the caller builds R and calls _save_to_cache(key, R)
Put(key, r) ==
    /\ caller.oids < 2 * MaxPuts
    /\ cache' = SaveToCache(cache, key, r, now, caller.oids + 2)
    /\ caller' = [caller EXCEPT !.R = [oid |-> caller.oids + 1, val |-> r],
                                !.oids = @ + 2]
    /\ UNCHANGED <<now, fbCache, ors, cstat, run, conc, fn, app>>

\* the caller mutates R after the put
MutateR(part, i) ==
    /\ caller.R.oid # 0
    /\ caller.muts < MaxMutations
    /\ ApplyMut(caller.R.val, part, i) # caller.R.val
    /\ caller' = [caller EXCEPT !.R.val = ApplyMut(@, part, i), !.muts = @ + 1]
    /\ cache' = MutateShared(cache, caller.R.oid, part, i)
    /\ UNCHANGED <<now, fbCache, ors, cstat, run, conc, fn, app>>

\* the caller calls _get_from_cache(key, top_n); dt ticks pass between the two
\* readings of the clock
Get(key, top_n, dt) ==
    /\ cstat.cache_hits + cstat.cache_misses < MaxLookups
    /\ now + dt <= StartTime + MaxTime
    /\ LET g == GetFromCache(cache, cstat, key, top_n, now, now + dt)
       IN  /\ cache' = g.cache
           /\ cstat' = g.st
           /\ caller' = [caller EXCEPT
                 !.ret = [g.ret EXCEPT
                            !.key = key,
                            !.same = SameAsBefore(caller.ret, g.ret),
                            !.asPut = (g.ret.kind = "hit" =>
                                         g.ret.val = PutValue(DictGet(cache, key), top_n))]]
    /\ now' = now + dt
    /\ UNCHANGED <<fbCache, ors, run, conc, fn, app>>

\* the caller mutates, in place, one part of the value a hit returned
MutateReturned(part, i) ==
    /\ caller.ret.kind = "hit"
    /\ <<part, i>> \notin caller.ret.touched
    /\ caller.muts < MaxMutations
    /\ part = "cand" => i \in 1..Len(caller.ret.val.top)
    /\ part # "cand" => i = 0
    /\ part = "top" => ~\E j \in 1..MaxTop : <<"cand", j>> \in caller.ret.touched
    /\ caller' = [caller EXCEPT !.ret.touched = @ \cup {<<part, i>>}, !.muts = @ + 1]
    /\ cache' = IF part \in caller.ret.shared
                THEN MutateShared(cache, caller.ret.oid, part, i)
                ELSE cache
    /\ UNCHANGED <<now, fbCache, ors, cstat, run, conc, fn, app>>

Tick ==
    /\ now < StartTime + MaxTime
    /\ now' = now + 1
    /\ UNCHANGED <<fbCache, ors, cache, cstat, caller, run, conc, fn, app>>

(***************************************************************************)
(* The stages Recommender.run calls.                                       *)
(*                                                                         *)
(* A query text is modelled by what the extractors of parser.py find in    *)
(* it: the numbers in front of a day unit and of a night unit, whether a   *)
(* half-day word occurs, the filter categories, the POI names, the place   *)
(* and the attraction name _extract_attraction_from_query cuts out.  No    *)
(* day count is 0; no place and no attraction is None.                     *)
(***************************************************************************)
MAX_DAYS == 14
OVERPASS_MAX_TRIES == 3
MAX_SCORE == 100
MAX_TIER_VALUE == 3
MAX_RATING_VALUE == 5
DEFAULT_MISSING_SCORE == 50

Query(text, days, nights, half, filters, pois, place, attraction) ==
    [text |-> text, days |-> days, nights |-> nights, half |-> half,
     filters |-> filters, pois |-> pois, place |-> place, attraction |-> attraction]

SeqSet(s) == {s[i] : i \in 1..Len(s)}

SetMax(S) == CHOOSE x \in S : \A y \in S : y <= x

SetMin(S) == CHOOSE x \in S : \A y \in S : x <= y

\* A number written in a text: in digits ("arabic") or in Chinese numerals
\* ("chinese"), of the given value.
Numeral(script, value) == [script |-> script, value |-> value]

\* parser.py lines 106-108: what the number group of the pattern captures of a
\* numeral standing right before the unit, as the value of the captured text.
\* \d+ takes a digit string whole; of the Chinese numerals the alternation
\* lists those up to twenty, so of a larger one (tens, ten, units) it captures
\* the tail that starts at the ten.
CapturedNumber(numeral) ==
    IF numeral.script = "arabic" \/ numeral.value <= 20
    THEN numeral.value
    ELSE 10 + (numeral.value % 10)

RECURSIVE ExtractPatternNumbers(_)
\* DaysExtractor._extract_pattern_numbers, lines 104-116, for the numerals that
\* stand before the unit asked for: ChineseNumberParser.parse of each capture,
\* the zeros dropped
ExtractPatternNumbers(numerals) ==
    IF numerals = <<>> THEN <<>>
    ELSE (IF CapturedNumber(Head(numerals)) > 0
          THEN << CapturedNumber(Head(numerals)) >> ELSE <<>>)
         \o ExtractPatternNumbers(Tail(numerals))

\* DaysExtractor._is_illogical_combination, parser.py lines 122-135
IsIllogicalCombination(day_counts, night_counts) ==
    /\ day_counts # <<>>
    /\ night_counts # <<>>
    /\ Len(day_counts) = 1
    /\ Len(night_counts) = 1
    /\ day_counts[1] < night_counts[1]
    /\ night_counts[1] - day_counts[1] <= 1

\* DaysExtractor.extract, parser.py lines 52-83 with _extract_all_days,
\* _resolve_conflicts and _validate_range; days 0 stands for None
ExtractDays(q) ==
    IF q.text = "" \/ q.half
    THEN [err |-> None, days |-> 0]
    ELSE LET found == IF IsIllogicalCombination(q.days, q.nights)
                      THEN <<>>
                      ELSE q.days \o q.nights
             unique == SeqSet(found)
         IN  IF found = <<>>
             THEN [err |-> None, days |-> 0]
             ELSE IF Cardinality(unique) = 1
                  THEN IF found[1] > MAX_DAYS
                       THEN [err |-> "DaysOutOfRangeError", days |-> 0]
                       ELSE [err |-> None, days |-> found[1]]
                  ELSE IF Cardinality(unique) = 2 /\ SetMax(unique) - SetMin(unique) = 1
                       THEN IF SetMax(unique) > MAX_DAYS
                            THEN [err |-> "DaysOutOfRangeError", days |-> 0]
                            ELSE [err |-> None, days |-> SetMax(unique)]
                       ELSE [err |-> "ParseConflictError", days |-> 0]

\* the ParseError family of exceptions.py
ParseErrors == {"ParseError", "DaysOutOfRangeError", "ParseConflictError"}

\* QueryParser.parse, parser.py lines 338-397
ParseQuery(q) ==
    LET d == ExtractDays(q)
    IN  IF d.err # None
        THEN [err |-> d.err, days |-> 0, filters |-> {}, poi |-> "", place |-> ""]
        ELSE IF q.place = None /\ q.pois = <<>>
             THEN [err |-> "ParseError", days |-> 0, filters |-> {}, poi |-> "",
                   place |-> ""]
             ELSE [err |-> None, days |-> d.days, filters |-> q.filters,
                   poi |-> IF q.pois # <<>> THEN q.pois[1] ELSE "",
                   place |-> IF q.place # None THEN q.place ELSE ""]

\* extract_location_from_query, parser.py lines 442-446 (LocationExtractor.extract)
ExtractLocation(q) == IF q.text = "" THEN None ELSE q.place

\* QueryService.extract_search_term, services/query_service.py lines 9-19
\* (a variant that hands back whatever it finds, without raising)
ExtractSearchTerm_NoRaise(q) ==
    [err |-> None, term |-> IF q.place # None THEN q.place ELSE ""]

ExtractSearchTerm(q) ==
    LET parsed == ParseQuery(q)
        location == ExtractLocation(q)
    IN  IF parsed.err # None
        THEN [err |-> parsed.err, term |-> ""]
        ELSE IF location = None /\ parsed.poi = ""
             THEN [err |-> "ParseError", term |-> ""]
             ELSE [err |-> None, term |-> IF location # None THEN location ELSE parsed.poi]

\* Recommender._merge_filters, pipeline.py lines 246-272 (duplicates removed;
\* the order plays no part in what follows)
MergeFilters(parsed_filters, api_filters) == parsed_filters \cup api_filters

\* Recommender._build_cache_key, pipeline.py lines 437-458: the digest of the
\* normalised parameters, modelled by the parameters themselves
BuildCacheKey(poi, place, filters, weights) ==
    <<poi, IF place = None THEN "" ELSE place, filters, weights>>

\* What the geocoder can answer: the coordinates found, or a failed request.
GeoOutcomes ==
    {Outcome("ok", 0, <<>>, FALSE)} \cup
    {Outcome("ok", 0, <<c>>, FALSE) : c \in Coords} \cup
    {Outcome("RequestException", 0, <<>>, FALSE), Outcome("JSONDecodeError", 0, <<>>, FALSE)}

\* NominatimClient.geocode_detailed (nominatim_client.py lines 47-81) under
\* GeocodeService.geocode_location_detailed (geocode_service.py lines 37-44);
\* details 0 stands for None
GeocodeLocationDetailed(o) ==
    IF o.kind # "ok"
    THEN [err |-> "GeocodeError", details |-> 0]
    ELSE IF o.payload = <<>>
         THEN [err |-> None, details |-> 0]
         ELSE [err |-> None, details |-> o.payload[1]]

\* NominatimClient.geocode (lines 22-45) under GeocodeService.geocode_location
\* (geocode_service.py lines 28-35)
GeocodeLocation(o) ==
    IF o.kind # "ok" \/ o.payload = <<>>
    THEN [err |-> "GeocodeError", coord |-> 0]
    ELSE [err |-> None, coord |-> o.payload[1]]

(***************************************************************************)
(* POI search (overpass_client.py), tiers (tier.py), scores                *)
(* (rating_service.py) and ranking (accommodation_search_service.py).      *)
(* A place on the map is a zone number; a polygon is the set of zones it   *)
(* covers.  An element without coordinates has zone 0, one without rating  *)
(* has rating -1.                                                          *)
(***************************************************************************)
TagKeys == {"parking", "wheelchair", "kids", "pet"}

NoTags == [t \in TagKeys |-> "absent"]

Elem(id, zone, rating, tags) == [osmid |-> id, zone |-> zone, rating |-> rating, tags |-> tags]

OverpassPayloads ==
    { <<>>,
      << Elem(2, 3, -1, NoTags), Elem(1, 1, 4, [NoTags EXCEPT !["parking"] = "yes"]) >>,
      << Elem(1, 1, 4, NoTags), Elem(3, 0, 3, NoTags) >>,
      << Elem(4, 2, 50, NoTags) >> }

OverpassOutcomes ==
    {Outcome("ok", 0, p, FALSE) : p \in OverpassPayloads} \cup
    {Outcome("Timeout", 0, <<>>, FALSE), Outcome("ConnectionError", 0, <<>>, FALSE),
     Outcome("JSONDecodeError", 0, <<>>, FALSE),
     Outcome("HTTPError", 429, <<>>, FALSE), Outcome("HTTPError", 500, <<>>, FALSE)}

\* fetch_overpass, overpass_client.py lines 11-28: pass number attempt
\* (1..max_tries) of the loop, the request ending with o
\* (a variant that goes round again for every 5xx status)
FetchOverpassStep_Any5xx(attempt, o) ==
    CASE o.kind = "ok" -> [act |-> "return", err |-> None]
      [] o.kind \in {"Timeout", "ConnectionError"} ->
            IF attempt = OVERPASS_MAX_TRIES
            THEN [act |-> "raise", err |-> "NetworkError"]
            ELSE [act |-> "continue", err |-> None]
      [] o.kind = "HTTPError" ->
            IF Retryable(o.status) /\ attempt < OVERPASS_MAX_TRIES
            THEN [act |-> "continue", err |-> None]
            ELSE [act |-> "raise", err |-> "HTTPError"]
      [] OTHER -> [act |-> "raise", err |-> "APIError"]

FetchOverpassStep(attempt, o) ==
    CASE o.kind = "ok" -> [act |-> "return", err |-> None]
      [] o.kind \in {"Timeout", "ConnectionError"} ->
            IF attempt = OVERPASS_MAX_TRIES
            THEN [act |-> "raise", err |-> "NetworkError"]
            ELSE [act |-> "continue", err |-> None]
      [] o.kind = "HTTPError" ->
            IF o.status \in {429, 504} /\ attempt < OVERPASS_MAX_TRIES
            THEN [act |-> "continue", err |-> None]
            ELSE [act |-> "raise", err |-> "HTTPError"]
      [] OTHER -> [act |-> "raise", err |-> "APIError"]

\* AccommodationService.process_accommodation_elements, lines 48-68
ProcessAccommodationElements(elements) ==
    [i \in 1..Len(elements) |->
        [osmid |-> elements[i].osmid, zone |-> elements[i].zone,
         rating |-> elements[i].rating, tags |-> elements[i].tags,
         tier |-> 0, score |-> 0]]

\* tier.py line 96: the key of a row's coordinates, lat and lon rounded to 8
\* decimals.  A zone is a cell of that grid; where in the cell a point lies (the
\* field fine of a row, when it has one) is lost in the key.
CoordKey(row) == row.zone

\* tier.py lines 53-74: the polygon assign_tier keeps of a group
\* (a variant that keeps the last polygon of the group)
ProcessedPolygon_Last(polygon_input) == polygon_input[Len(polygon_input)]

ProcessedPolygon(polygon_input) == polygon_input[1]

\* lines 108-117: the tier of the point with key z
\* (a variant that keeps the lowest tier of the polygons containing the point)
HighestTier_Lowest(z, processed_polygons) ==
    LET N == Len(processed_polygons)
        hits == {N - j + 1 : j \in {k \in 1..N : z \in processed_polygons[k]}}
    IN  IF hits = {} THEN 0 ELSE SetMin(hits)

HighestTier(z, processed_polygons) ==
    LET N == Len(processed_polygons)
    IN  SetMax({0} \cup {N - j + 1 : j \in {k \in 1..N : z \in processed_polygons[k]}})

\* assign_tier, tier.py lines 13-122
AssignTier(rows, polygons) ==
    IF \E i \in 1..Len(rows) : rows[i].zone = 0
    THEN [err |-> "TierError", rows |-> <<>>]
    ELSE IF \E j \in 1..Len(polygons) : polygons[j] = <<>>
         THEN [err |-> "TierError", rows |-> <<>>]
         ELSE LET processed_polygons ==
                      [j \in 1..Len(polygons) |-> ProcessedPolygon(polygons[j])]
              IN  [err |-> None,
                   rows |-> [i \in 1..Len(rows) |->
                                [rows[i] EXCEPT !.tier =
                                    HighestTier(CoordKey(rows[i]), processed_polygons)]]]

\* TierService.assign_tiers, services/tier_service.py lines 13-21
AssignTiers(rows, isochrones_list) ==
    IF isochrones_list # <<>> /\ \A j \in 1..Len(isochrones_list) : isochrones_list[j] # <<>>
    THEN AssignTier(rows, isochrones_list)
    ELSE [err |-> None, rows |-> [i \in 1..Len(rows) |-> [rows[i] EXCEPT !.tier = 0]]]

\* config.py lines 68-75
DefaultWeights ==
    [tier |-> 4, rating |-> 2, parking |-> 1, wheelchair |-> 1, kids |-> 1, pet |-> 1]

\* _merge_weights, rating_service.py lines 34-44; <<>> stands for None
MergeWeights(weights) ==
    IF weights = <<>> THEN DefaultWeights
    ELSE [k \in DOMAIN DefaultWeights |->
            IF k \in DOMAIN weights THEN weights[k] ELSE DefaultWeights[k]]

WeightSum(w) == w.tier + w.rating + w.parking + w.wheelchair + w.kids + w.pet

\* the denominator every score of the model is written over: scores are kept
\* exact, as numerators over 3 * 5 * (the sum of the weights)
ScoreDen(w) == MAX_TIER_VALUE * MAX_RATING_VALUE * WeightSum(w)

\* _calculate_component_scores, lines 76-124, times 3 * 5
TagScore(v) ==
    IF v = "yes" THEN MAX_SCORE * MAX_TIER_VALUE * MAX_RATING_VALUE
    ELSE IF v = "no" THEN 0
    ELSE DEFAULT_MISSING_SCORE * MAX_TIER_VALUE * MAX_RATING_VALUE

\* score_accommodation, rating_service.py lines 166-201: the numerator of the
\* weighted average over ScoreDen
ScoreAccommodation(row, weights) ==
    LET w == MergeWeights(weights)
    IN  IF \E k \in DOMAIN w : w[k] < 0
        THEN [err |-> "ValueError", score |-> 0]
        ELSE IF WeightSum(w) = 0
        THEN [err |-> "ZeroDivisionError", score |-> 0]
        ELSE IF row.tier < 0 \/ row.tier > MAX_TIER_VALUE
        THEN [err |-> "ValueError", score |-> 0]
        ELSE [err |-> None,
              score |->
                  row.tier * MAX_RATING_VALUE * MAX_SCORE * w.tier
                  + (IF row.rating = -1
                     THEN DEFAULT_MISSING_SCORE * MAX_TIER_VALUE * MAX_RATING_VALUE
                     ELSE row.rating * MAX_TIER_VALUE * MAX_SCORE) * w.rating
                  + TagScore(row.tags["parking"]) * w.parking
                  + TagScore(row.tags["wheelchair"]) * w.wheelchair
                  + TagScore(row.tags["kids"]) * w.kids
                  + TagScore(row.tags["pet"]) * w.pet]

RECURSIVE InsertByScore(_, _)
\* the place of row r among rows sorted by falling score (after its equals)
InsertByScore(rows, r) ==
    IF rows = <<>> THEN <<r>>
    ELSE IF Head(rows).score >= r.score
         THEN <<Head(rows)>> \o InsertByScore(Tail(rows), r)
         ELSE <<r>> \o rows

RECURSIVE SortAccommodations(_)
\* sort_accommodations, accommodation_search_service.py lines 106-115
SortAccommodations(rows) ==
    IF rows = <<>> THEN <<>>
    ELSE InsertByScore(SortAccommodations(SubSeq(rows, 1, Len(rows) - 1)), rows[Len(rows)])

\* search_accommodations_by_coordinates, lines 66-86, and search_accommodations,
\* lines 39-59, from the isochrone service's answer on: iso is its Ret
SearchRest(rows, iso, weights) ==
    IF iso.kind = "None"
    THEN [err |-> None, rows |-> <<>>]
    ELSE LET tiered == AssignTiers(rows, iso.val)
         IN  IF tiered.err # None
             THEN [err |-> tiered.err, rows |-> <<>>]
             ELSE LET sc == [i \in 1..Len(rows) |-> ScoreAccommodation(tiered.rows[i], weights)]
                  IN  IF \E i \in 1..Len(rows) : sc[i].err # None
                      THEN [err |-> sc[CHOOSE i \in 1..Len(rows) :
                                           /\ sc[i].err # None
                                           /\ \A j \in 1..(i - 1) : sc[j].err = None].err,
                            rows |-> <<>>]
                      ELSE [err |-> None,
                            rows |-> SortAccommodations(
                                [i \in 1..Len(rows) |->
                                    [tiered.rows[i] EXCEPT !.score = sc[i].score]])]

\* rank_accommodations, accommodation_search_service.py lines 172-213, for the
\* weights the scores were computed with
RankAccommodations(rows, filters, top_n, weights) ==
    IF rows = <<>>
    THEN [err |-> "NoAccommodationError", rows |-> <<>>]
    ELSE IF \E i \in 1..Len(rows) :
                \/ rows[i].score < 0
                \/ rows[i].score > MAX_SCORE * ScoreDen(MergeWeights(weights))
                \/ rows[i].tier < 0
                \/ rows[i].tier > 3
    THEN [err |-> "ValueError", rows |-> <<>>]
    ELSE LET kept == KeepAt(rows, {i \in 1..Len(rows) :
                                        \A f \in filters : rows[i].tags[f] = "yes"})
         IN  IF filters # {} /\ kept = <<>>
             THEN [err |-> "NoAccommodationError", rows |-> <<>>]
             ELSE [err |-> None,
                   rows |-> IF top_n > 0
                            THEN Take(SortAccommodations(kept), top_n)
                            ELSE SortAccommodations(kept)]

\* Recommender.recommend and recommend_by_coordinates, recommender.py lines
\* 21-78, from the search's answer on
RecommendRest(found, filters, top_n, weights) ==
    IF found.err # None \/ found.rows = <<>>
    THEN found
    ELSE RankAccommodations(found.rows, filters, top_n, weights)

\* Recommender._serialize_gdf, pipeline.py lines 274-315
SerializeGdf(rows) ==
    [i \in 1..Len(rows) |-> Cand(rows[i].osmid, rows[i].score, rows[i].tier)]

\* Recommender._build_main_poi_data, pipeline.py lines 332-363; details 0
\* stands for None, and so do lat 0 and lon 0
BuildMainPoiData(main_poi_name, location, poi_details) ==
    [name |-> main_poi_name, location |-> location, lat |-> poi_details,
     lon |-> poi_details]

\* Recommender._convert_isochrones_to_geojson, pipeline.py lines 405-435
ConvertIsochronesToGeojson(isochrones_list) ==
    LET groups == KeepAt(isochrones_list,
                            {j \in 1..Len(isochrones_list) : isochrones_list[j] # <<>>})
    IN  [j \in 1..Len(groups) |->
            IF Len(groups[j]) = 1
            THEN [type |-> "Polygon", coordinates |-> groups[j][1]]
            ELSE [type |-> "MultiPolygon", coordinates |-> groups[j]]]

\* the result of lines 83-89 and 238-244
EmptyResult(main_poi) == Result(ZeroStats, <<>>, main_poi, <<>>, <<>>)

UnknownPoi == "unknown"

(***************************************************************************)
(* Recommender.run, pipeline.py lines 60-244.  pc:                         *)
(*   "idle"      no call has been made                                     *)
(*   "geocode"   inside geocode_location_detailed (line 119)               *)
(*   "geocode2"  inside geocode_location, under recommend(query) (line 180)*)
(*   "overpass"  inside fetch_overpass, pass number attempt of its loop    *)
(*   "iso1"      at the isochrone call of the search (lines 175-180)       *)
(*   "iso2"      at the isochrone call of line 197                         *)
(*   "done"      run has returned or raised out                            *)
(* History kept for the properties: calls, the external calls of this run  *)
(* in order (<<"geocode", 0>> a geocode request sent, <<"geocoded", c>> its*)
(* answer c or 0, <<"overpass", c>> and <<"isochrone", c>> a request for   *)
(* the coordinate c); pre, the result cache and the counters at entry;     *)
(* parseErr, what parse_query raised; exc, what the search try block       *)
(* raised; isoDown, whether an isochrone call of this run ended with every *)
(* transport attempt failed and nothing cached; n, the runs so far; full,  *)
(* the ranking of this run before the cut to top_n; ranked, for each cache *)
(* key, the full and the top_n of the run that last stored under it.       *)
(***************************************************************************)
NoKey == <<>>

Request(q, filters, top_n) == [query |-> q, filters |-> filters, top_n |-> top_n]

\* the request bodies run is called with
Requests ==
    { Request(Query("", <<>>, <<>>, FALSE, {}, <<>>, None, None), {}, MaxTop),
      Request(Query("q1", <<2>>, <<1>>, FALSE, {"parking"}, <<"aquarium">>, "okinawa", None),
              {}, MaxTop),
      Request(Query("q1", <<2>>, <<1>>, FALSE, {"parking"}, <<"aquarium">>, "okinawa", None),
              {}, 1),
      Request(Query("q1", <<2>>, <<1>>, FALSE, {"parking"}, <<"aquarium">>, "okinawa", None),
              {"wheelchair"}, MaxTop),
      Request(Query("q2", <<>>, <<>>, FALSE, {}, <<>>, "okinawa", "museum"), {}, 1),
      Request(Query("q2", <<>>, <<>>, FALSE, {}, <<>>, "okinawa", "museum"), {}, MaxTop),
      Request(Query("q3", <<>>, <<>>, FALSE, {"pet"}, <<>>, None, None), {}, MaxTop),
      Request(Query("q4", <<15>>, <<>>, FALSE, {}, <<"aquarium">>, None, None), {}, MaxTop),
      Request(Query("q5", <<3>>, <<5>>, FALSE, {}, <<"aquarium">>, None, None), {}, MaxTop) }

RunIdle ==
    [pc |-> "idle", q |-> Query("", <<>>, <<>>, FALSE, {}, <<>>, None, None),
     api_filters |-> {}, top_n |-> 0, weights |-> <<>>,
     poi |-> "", location |-> None, main_poi_name |-> UnknownPoi, poi_details |-> 0,
     parsed_filters |-> {}, merged_filters |-> {}, cache_key |-> NoKey,
     coord |-> 0, attempt |-> 0, rows |-> <<>>, stats |-> ZeroStats, top |-> <<>>,
     out |-> Ret("none", <<>>, None),
     calls |-> <<>>, pre |-> <<>>, parseErr |-> None, exc |-> None,
     isoDown |-> FALSE, n |-> 0, full |-> <<>>, ranked |-> <<>>]

\* lines 233-244: the search try block raised err
\* (a variant that turns every exception into ServiceUnavailableError)
RunExcept_RaiseAll(err, main_poi) == Ret("raise", <<>>, "ServiceUnavailableError")

RunExcept(err, main_poi) ==
    IF err \in {"NetworkError", "APIError", "GeocodeError", "IsochroneError"}
    THEN Ret("raise", <<>>, "ServiceUnavailableError")
    ELSE Ret("value", EmptyResult(main_poi), None)

MainPoi(r) == BuildMainPoiData(r.main_poi_name, r.location, r.poi_details)

Raised(r, err) ==
    [r EXCEPT !.pc = "done", !.exc = err, !.out = RunExcept(err, MainPoi(r))]

\* lines 121-123: main_poi_lat and main_poi_lon, 0 for None
\* (a variant that falls back on a fixed coordinate)
MainPoiCoord_Default(poi_details) == IF poi_details # 0 THEN poi_details ELSE 1

MainPoiCoord(poi_details) == poi_details

\* lines 144-181: from the end of the parsing block to the first external call of
\* the search.  r holds the locals the parsing block left, c and st are the
\* cache and its counters, t is the time.
SearchEntry(r, c, st, t) ==
    LET merged == MergeFilters(r.parsed_filters, r.api_filters)
        keyed == r.poi # "" \/ r.location # None
        key == IF keyed
               THEN BuildCacheKey(r.poi, r.location, merged, r.weights)
               ELSE NoKey
        g == IF keyed
             THEN GetFromCache(c, st, key, r.top_n, t, t)
             ELSE [ret |-> Miss, cache |-> c, st |-> st, ran |-> FALSE]
        r1 == [r EXCEPT !.merged_filters = merged, !.cache_key = key]
        lat == MainPoiCoord(r.poi_details)
        term == ExtractSearchTerm(r.q)
    IN  [cache |-> g.cache, st |-> g.st,
         run |->
            IF g.ret.kind = "hit"
            THEN [r1 EXCEPT !.pc = "done", !.out = Ret("value", g.ret.val, None)]
            ELSE IF lat # 0
                 THEN [r1 EXCEPT !.pc = "overpass", !.coord = lat, !.attempt = 1,
                                 !.calls = Append(@, <<"overpass", lat>>)]
                 ELSE IF term.err # None
                      THEN Raised(r1, term.err)
                      ELSE [r1 EXCEPT !.pc = "geocode2",
                                      !.calls = Append(@, <<"geocode", 0>>)]]

\* lines 125-142: the handler of the parsing block
ParsingFailed(r) ==
    [r EXCEPT !.main_poi_name = UnknownPoi, !.location = None, !.poi_details = 0,
              !.parsed_filters = {}, !.poi = ""]

\* line 81: not query
\* (a variant that sends the empty query on to the parser)
IsEmptyQuery_Never(q) == FALSE

IsEmptyQuery(q) == q.text = ""

\* lines 76-110: run is called; the query is parsed
RunStart(query_data) ==
    /\ run.pc \in {"idle", "done"}
    /\ run.n < MaxRuns
    /\ LET q == query_data.query
           api_filters == query_data.filters
           top_n == query_data.top_n
           r0 == [RunIdle EXCEPT !.q = q, !.api_filters = api_filters, !.top_n = top_n,
                                 !.n = run.n + 1, !.ranked = run.ranked,
                                 !.pre = [cache |-> cache, cstat |-> cstat]]
           parsed == ParseQuery(q)
           location == ExtractLocation(q)
           name == IF parsed.poi # "" THEN parsed.poi
                   ELSE IF location # None
                        THEN IF q.attraction # None THEN q.attraction ELSE location
                        ELSE UnknownPoi
       IN  IF IsEmptyQuery(q)
           THEN /\ run' = [r0 EXCEPT !.pc = "done",
                                     !.out = Ret("value", EmptyResult(MainPoi(r0)), None)]
                /\ UNCHANGED <<cache, cstat>>
           ELSE IF parsed.err # None
           THEN LET e == SearchEntry([ParsingFailed(r0) EXCEPT !.parseErr = parsed.err],
                                     cache,
                                     [cstat EXCEPT !.parsing_failures = @ + 1], now)
                IN  /\ run' = e.run
                    /\ cache' = e.cache
                    /\ cstat' = e.st
           ELSE IF name # ""
           THEN /\ run' = [r0 EXCEPT !.pc = "geocode", !.poi = parsed.poi,
                                     !.location = location, !.main_poi_name = name,
                                     !.parsed_filters = parsed.filters,
                                     !.calls = <<<<"geocode", 0>>>>]
                /\ UNCHANGED <<cache, cstat>>
           ELSE LET e == SearchEntry([r0 EXCEPT !.poi = parsed.poi,
                                                !.location = location,
                                                !.parsed_filters = parsed.filters],
                                     cache, cstat, now)
                IN  /\ run' = e.run
                    /\ cache' = e.cache
                    /\ cstat' = e.st
    /\ UNCHANGED <<now, fbCache, ors, caller, conc, fn, app>>

\* lines 119-181: geocode_location_detailed is back with o
RunGeocodeReturn(o) ==
    /\ run.pc = "geocode"
    /\ LET g == GeocodeLocationDetailed(o)
           r1 == [run EXCEPT !.calls = Append(@, <<"geocoded", g.details>>)]
           e == IF g.err # None
                THEN SearchEntry(ParsingFailed(r1), cache,
                                 [cstat EXCEPT !.parsing_failures = @ + 1], now)
                ELSE SearchEntry([r1 EXCEPT !.poi_details = g.details], cache, cstat, now)
       IN  /\ run' = e.run
           /\ cache' = e.cache
           /\ cstat' = e.st
    /\ UNCHANGED <<now, fbCache, ors, caller, conc, fn, app>>

\* search_accommodations lines 34-37, under recommend(query): geocode_location is
\* back with o
RunGeocode2Return(o) ==
    /\ run.pc = "geocode2"
    /\ LET g == GeocodeLocation(o)
           r1 == [run EXCEPT !.calls = Append(@, <<"geocoded", g.coord>>)]
       IN  run' = IF g.err # None
                  THEN Raised(r1, g.err)
                  ELSE [r1 EXCEPT !.pc = "overpass", !.coord = g.coord, !.attempt = 1,
                                  !.calls = Append(@, <<"overpass", g.coord>>)]
    /\ UNCHANGED <<now, fbCache, ors, cache, cstat, caller, conc, fn, app>>

\* lines 208-231: the result is built, stored under the cache key if there is
\* one, and returned
Finish(r, geometry, intervals) ==
    LET result == Result(r.stats, r.top, MainPoi(r), geometry, intervals)
    IN  [cache |-> IF r.cache_key # NoKey
                   THEN SaveToCache(cache, r.cache_key, result, now, r.n)
                   ELSE cache,
         run |-> [r EXCEPT !.pc = "done", !.out = Ret("value", result, None),
                           !.ranked = IF r.cache_key # NoKey
                                      THEN DictSet(@, [k |-> r.cache_key, rows |-> r.full,
                                                       n |-> r.top_n])
                                      ELSE @]]

\* lines 181-207: recommend or recommend_by_coordinates is back with found
AfterSearch(r, found) ==
    IF found.err # None
    THEN [cache |-> cache, run |-> Raised(r, found.err)]
    ELSE LET r1 == [r EXCEPT !.top = SerializeGdf(found.rows),
                             !.stats = CalculateTierStats(found.rows)]
         IN  IF MainPoiCoord(r.poi_details) # 0
             THEN [cache |-> cache, run |-> [r1 EXCEPT !.pc = "iso2"]]
             ELSE Finish(r1, <<>>, <<>>)

\* fetch_accommodations under the search: one pass of fetch_overpass's loop, the
\* request ending with o
RunOverpassAttempt(o) ==
    /\ run.pc = "overpass"
    /\ LET step == FetchOverpassStep(run.attempt, o)
           rows == ProcessAccommodationElements(o.payload)
       IN  CASE step.act = "continue" ->
                  /\ run' = [run EXCEPT !.attempt = @ + 1]
                  /\ cache' = cache
             [] step.act = "raise" ->
                  /\ run' = Raised([run EXCEPT !.attempt = 0], step.err)
                  /\ cache' = cache
             [] step.act = "return" ->
                  IF rows = <<>>
                  THEN LET a == AfterSearch([run EXCEPT !.attempt = 0],
                                            [err |-> None, rows |-> <<>>])
                       IN  /\ run' = a.run
                           /\ cache' = a.cache
                  ELSE /\ run' = [run EXCEPT !.pc = "iso1", !.rows = rows, !.attempt = 0]
                       /\ cache' = cache
    /\ UNCHANGED <<now, fbCache, ors, cstat, caller, conc, fn, app>>

\* the coordinate of the isochrone call run is at: lines 70 and 43 of the search
\* service, line 194 of run
IsoCoord(r) == IF r.pc = "iso1" THEN r.coord ELSE MainPoiCoord(r.poi_details)

\* get_isochrones_with_fallback is called
RunIsoCall ==
    /\ run.pc \in {"iso1", "iso2"}
    /\ ors.pc = "idle"
    /\ SvcCall(IsoCoord(run))
    /\ run' = [run EXCEPT !.calls = Append(@, <<"isochrone", IsoCoord(run)>>)]
    /\ UNCHANGED <<cache, cstat, caller, conc, fn, app>>

\* how the isochrone transport answers during a run
RunIsoOutcomes ==
    {Outcome("ok", 0, PolyA, FALSE), Outcome("Timeout", 0, <<>>, FALSE),
     Outcome("HTTPError", 404, <<>>, FALSE), Outcome("APIError", 0, <<>>, FALSE)}

\* the isochrone call proceeds
RunIsoStep ==
    /\ run.pc \in {"iso1", "iso2"}
    /\ \/ \E o \in RunIsoOutcomes : TransportAttempt(o)
       \/ SvcReturn
    /\ UNCHANGED <<cache, cstat, caller, run, conc, fn, app>>

\* whether the isochrone call that just ended had every transport attempt fail
\* and nothing cached to serve
IsoDown(o) == o.svcRet.kind = "None" /\ o.wrapRet.err = "IsochroneError"

\* the search's isochrone call is back: tiers, scores, ranking (search service
\* lines 47-59 and 74-86, recommender.py lines 41-48 and 71-78)
RunIso1Return ==
    /\ run.pc = "iso1"
    /\ ors.pc = "done"
    /\ LET searched == SearchRest(run.rows, ors.svcRet, run.weights)
           found == RecommendRest(searched, run.merged_filters, run.top_n, run.weights)
           uncut == RecommendRest(searched, run.merged_filters, 0, run.weights)
           a == AfterSearch([run EXCEPT !.isoDown = @ \/ IsoDown(ors),
                                        !.full = uncut.rows], found)
       IN  /\ run' = a.run
           /\ cache' = a.cache
    /\ ors' = OrsIdle
    /\ UNCHANGED <<now, fbCache, cstat, caller, conc, fn, app>>

\* lines 197-231: run's own isochrone call is back
RunIso2Return ==
    /\ run.pc = "iso2"
    /\ ors.pc = "done"
    /\ LET isochrones_list == ors.svcRet
           r1 == [run EXCEPT !.isoDown = @ \/ IsoDown(ors)]
           a == IF isochrones_list.kind = "value" /\ isochrones_list.val # <<>>
                THEN Finish(r1, ConvertIsochronesToGeojson(isochrones_list.val),
                            DefaultIntervals)
                ELSE Finish(r1, <<>>, <<>>)
       IN  /\ run' = a.run
           /\ cache' = a.cache
    /\ ors' = OrsIdle
    /\ UNCHANGED <<now, fbCache, cstat, caller, conc, fn, app>>

\* a pause between two runs, long enough for every cached entry to age out
\* (the runs themselves take no time on this scale)
LongPause == 1 + (IF FbTtl > CacheTtl THEN FbTtl ELSE CacheTtl)

(***************************************************************************)
(* Concurrent requests.  create_app builds one Recommender for the         *)
(* application (__init__.py line 33) and _fallback_cache is a module-level *)
(* dict (ors_client.py line 82); neither is guarded by a lock, so the      *)
(* threads serving requests interleave between any two reads or writes of  *)
(* the two dicts.  Each thread runs cache operations one after the other;  *)
(* one step of a thread is one read or write of a dict (a membership test, *)
(* a subscript, a del, a store, a pop, len, the creation of an iterator,   *)
(* one next() of it, sorted(), which copies the items in one go).          *)
(* pc of a thread:                                                         *)
(*   g_in g_read g_del            _get_from_cache lines 470, 481-484, 485  *)
(*   c_check c_mark c_iter0 c_iter c_del c_len c_sort c_num c_evict        *)
(*                                _cleanup_cache lines 542-573             *)
(*   s_set                        _save_to_cache line 530                  *)
(*   f_in f_read f_call f_store f_len f_iter0 f_iter f_pop f_len2 f_min0   *)
(*   f_min f_key f_popmin f_exc f_exc_read                                 *)
(*                                fallback_cache.wrapper lines 99-135      *)
(*   failed                       the operation raised err out of a dict   *)
(*                                access (KeyError, or the RuntimeError of *)
(*                                an iterator whose dict changed size), at *)
(*                                the pc recorded in at                    *)
(* Locals: key; t, the time the operation read; i and used, the position   *)
(* of the iterator and the size of the dict when it was created; todo, the *)
(* keys collected for deletion (or the key handed to min's key function);  *)
(* best, the least timestamp min has seen and its key.                     *)
(***************************************************************************)
Procs == 1..NumProcs

NoBest == [k |-> 0, ts |-> 0]

ConcIdle ==
    [pc |-> "idle", key |-> 0, t |-> 0, i |-> 0, used |-> 0, todo |-> <<>>,
     best |-> NoBest, err |-> None, at |-> "", ops |-> 0]

\* the operation returns to the request
ConcDone(c) ==
    [c EXCEPT !.pc = "idle", !.key = 0, !.t = 0, !.i = 0, !.used = 0,
              !.todo = <<>>, !.best = NoBest]

\* the dict access raises err
ConcFail(c, err) == [c EXCEPT !.pc = "failed", !.err = err, !.at = c.pc]

ConcOps == {"get", "save", "fetch"}

\* a thread enters _get_from_cache, _save_to_cache or the wrapped isochrone call
ConcBegin(p, op, key) ==
    /\ conc[p].pc = "idle"
    /\ conc[p].ops < MaxConcOps
    /\ op \in {"get", "save"} => key \in CacheKeys
    /\ op = "fetch" => key \in Coords
    /\ conc' = [conc EXCEPT ![p] =
                   [@ EXCEPT !.pc = CASE op = "get" -> "g_in"
                                      [] op = "save" -> "s_set"
                                      [] op = "fetch" -> "f_in",
                             !.key = key,
                             !.t = IF op = "fetch" THEN now ELSE 0,
                             !.ops = @ + 1]]
    /\ UNCHANGED <<now, fbCache, ors, cache, cstat, caller, run, fn, app>>

\* one step of _get_from_cache before its call of _cleanup_cache
GetStep(p) ==
    LET c == conc[p] IN
    /\ c.pc \in {"g_in", "g_read", "g_del"}
    /\ CASE c.pc = "g_in" ->
                IF DictHas(cache, c.key)
                THEN /\ conc' = [conc EXCEPT ![p].pc = "g_read"]
                     /\ UNCHANGED <<cache, cstat>>
                ELSE /\ conc' = [conc EXCEPT ![p].pc = "c_check"]
                     /\ cstat' = [cstat EXCEPT !.cache_misses = @ + 1]
                     /\ UNCHANGED cache
         [] c.pc = "g_read" ->
                IF ~DictHas(cache, c.key)
                THEN /\ conc' = [conc EXCEPT ![p] = ConcFail(c, "KeyError")]
                     /\ UNCHANGED <<cache, cstat>>
                ELSE IF now - DictGet(cache, c.key).ts > CacheTtl
                     THEN /\ conc' = [conc EXCEPT ![p].pc = "g_del"]
                          /\ UNCHANGED <<cache, cstat>>
                     ELSE /\ conc' = [conc EXCEPT ![p].pc = "c_check"]
                          /\ cstat' = [cstat EXCEPT !.cache_hits = @ + 1]
                          /\ UNCHANGED cache
         [] c.pc = "g_del" ->
                IF ~DictHas(cache, c.key)
                THEN /\ conc' = [conc EXCEPT ![p] = ConcFail(c, "KeyError")]
                     /\ UNCHANGED <<cache, cstat>>
                ELSE /\ cache' = DictDelAll(cache, {c.key})
                     /\ cstat' = [cstat EXCEPT !.cache_misses = @ + 1]
                     /\ conc' = [conc EXCEPT ![p].pc = "c_check"]
    /\ UNCHANGED <<now, fbCache, ors, caller, run, fn, app>>

\* one next() of an iterator over dict d made when d had c.used entries: the
\* record of the thread afterwards.  ttl: the age above which a key is collected;
\* after: where the loop exits to.
IterNext(c, d, ttl, after) ==
    IF Len(d) # c.used THEN ConcFail(c, "RuntimeError")
    ELSE IF c.i >= Len(d) THEN [c EXCEPT !.pc = after, !.i = 0, !.used = 0]
    ELSE [c EXCEPT !.i = @ + 1,
                   !.todo = IF c.t - d[c.i + 1].ts > ttl
                            THEN Append(@, d[c.i + 1].k) ELSE @]

RECURSIVE KeysByAge(_)
\* the keys of sorted(d.items(), key=timestamp): oldest first, ties in dict order
KeysByAge(d) ==
    IF d = <<>> THEN <<>>
    ELSE <<DictOldestKey(d)>> \o KeysByAge(DictDelAll(d, {DictOldestKey(d)}))

\* s[:n]
PySlice(s, n) ==
    IF n >= 0 THEN SubSeq(s, 1, Min(n, Len(s)))
    ELSE SubSeq(s, 1, IF Len(s) + n > 0 THEN Len(s) + n ELSE 0)

\* one step of _cleanup_cache
CleanupStep(p) ==
    LET c == conc[p] IN
    /\ c.pc \in {"c_check", "c_mark", "c_iter0", "c_iter", "c_del", "c_len",
                 "c_sort", "c_num", "c_evict"}
    /\ CASE c.pc = "c_check" ->
                /\ conc' = [conc EXCEPT ![p] =
                               IF now - cstat.last_cleanup_time < CleanupInterval
                               THEN ConcDone(c)
                               ELSE [c EXCEPT !.pc = "c_mark", !.t = now]]
                /\ UNCHANGED <<cache, cstat>>
         [] c.pc = "c_mark" ->
                /\ cstat' = [cstat EXCEPT !.last_cleanup_time = c.t]
                /\ conc' = [conc EXCEPT ![p].pc = "c_iter0"]
                /\ UNCHANGED cache
         [] c.pc = "c_iter0" ->
                /\ conc' = [conc EXCEPT ![p] =
                               [c EXCEPT !.pc = "c_iter", !.i = 0, !.used = Len(cache),
                                         !.todo = <<>>]]
                /\ UNCHANGED <<cache, cstat>>
         [] c.pc = "c_iter" ->
                /\ conc' = [conc EXCEPT ![p] = IterNext(c, cache, CacheTtl, "c_del")]
                /\ UNCHANGED <<cache, cstat>>
         [] c.pc \in {"c_del", "c_evict"} ->
                IF c.todo = <<>>
                THEN /\ conc' = [conc EXCEPT ![p] =
                                    IF c.pc = "c_del" THEN [c EXCEPT !.pc = "c_len"]
                                    ELSE ConcDone(c)]
                     /\ UNCHANGED <<cache, cstat>>
                ELSE IF ~DictHas(cache, Head(c.todo))
                     THEN /\ conc' = [conc EXCEPT ![p] = ConcFail(c, "KeyError")]
                          /\ UNCHANGED <<cache, cstat>>
                     ELSE /\ cache' = DictDelAll(cache, {Head(c.todo)})
                          /\ conc' = [conc EXCEPT ![p].todo = Tail(@)]
                          /\ UNCHANGED cstat
         [] c.pc = "c_len" ->
                /\ conc' = [conc EXCEPT ![p] =
                               IF Len(cache) > CacheMaxSize
                               THEN [c EXCEPT !.pc = "c_sort"]
                               ELSE ConcDone(c)]
                /\ UNCHANGED <<cache, cstat>>
         [] c.pc = "c_sort" ->
                /\ conc' = [conc EXCEPT ![p] =
                               [c EXCEPT !.pc = "c_num", !.todo = KeysByAge(cache)]]
                /\ UNCHANGED <<cache, cstat>>
         [] c.pc = "c_num" ->
                /\ conc' = [conc EXCEPT ![p] =
                               [c EXCEPT !.pc = "c_evict",
                                         !.todo = PySlice(@, Len(cache) - CacheMaxSize)]]
                /\ UNCHANGED <<cache, cstat>>
    /\ UNCHANGED <<now, fbCache, ors, caller, run, fn, app>>

\* _save_to_cache: the store of line 530
SaveStep(p) ==
    /\ conc[p].pc = "s_set"
    /\ cache' = SaveToCache(cache, conc[p].key, <<>>, now, 0)
    /\ conc' = [conc EXCEPT ![p] = ConcDone(@)]
    /\ UNCHANGED <<now, fbCache, ors, cstat, caller, run, fn, app>>

\* one step of fallback_cache.wrapper; ok: whether the wrapped call, made at
\* f_call, returns (a payload) or raises one of the errors the wrapper catches
FbStep(p, ok) ==
    LET c == conc[p] IN
    /\ c.pc \in {"f_in", "f_read", "f_call", "f_store", "f_len", "f_iter0", "f_iter",
                 "f_pop", "f_len2", "f_min0", "f_min", "f_key", "f_popmin",
                 "f_exc", "f_exc_read"}
    /\ c.pc # "f_call" => ok
    /\ CASE c.pc = "f_in" ->
                /\ conc' = [conc EXCEPT ![p].pc =
                               IF DictHas(fbCache, c.key) THEN "f_read" ELSE "f_call"]
                /\ UNCHANGED fbCache
         [] c.pc = "f_read" ->
                /\ conc' = [conc EXCEPT ![p] =
                               IF ~DictHas(fbCache, c.key) THEN ConcFail(c, "KeyError")
                               ELSE IF c.t - DictGet(fbCache, c.key).ts <= FbTtl
                                    THEN ConcDone(c)
                                    ELSE [c EXCEPT !.pc = "f_call"]]
                /\ UNCHANGED fbCache
         [] c.pc = "f_call" ->
                /\ conc' = [conc EXCEPT ![p].pc = IF ok THEN "f_store" ELSE "f_exc"]
                /\ UNCHANGED fbCache
         [] c.pc = "f_store" ->
                /\ fbCache' = DictSet(fbCache, [k |-> c.key, val |-> PolyA, ts |-> c.t])
                /\ conc' = [conc EXCEPT ![p].pc = "f_len"]
         [] c.pc \in {"f_len", "f_len2"} ->
                /\ conc' = [conc EXCEPT ![p] =
                               IF Len(fbCache) > FbMaxSize
                               THEN [c EXCEPT !.pc = IF c.pc = "f_len" THEN "f_iter0"
                                                     ELSE "f_min0"]
                               ELSE ConcDone(c)]
                /\ UNCHANGED fbCache
         [] c.pc \in {"f_iter0", "f_min0"} ->
                /\ conc' = [conc EXCEPT ![p] =
                               [c EXCEPT !.pc = IF c.pc = "f_iter0" THEN "f_iter"
                                                ELSE "f_min",
                                         !.i = 0, !.used = Len(fbCache),
                                         !.todo = <<>>, !.best = NoBest]]
                /\ UNCHANGED fbCache
         [] c.pc = "f_iter" ->
                /\ conc' = [conc EXCEPT ![p] = IterNext(c, fbCache, FbTtl, "f_pop")]
                /\ UNCHANGED fbCache
         [] c.pc = "f_pop" ->
                IF c.todo = <<>>
                THEN /\ conc' = [conc EXCEPT ![p].pc = "f_len2"]
                     /\ UNCHANGED fbCache
                ELSE /\ fbCache' = DictDelAll(fbCache, {Head(c.todo)})
                     /\ conc' = [conc EXCEPT ![p].todo = Tail(@)]
         [] c.pc = "f_min" ->
                /\ conc' = [conc EXCEPT ![p] =
                               IF Len(fbCache) # c.used THEN ConcFail(c, "RuntimeError")
                               ELSE IF c.i >= Len(fbCache)
                                    THEN [c EXCEPT !.pc = "f_popmin", !.i = 0, !.used = 0]
                                    ELSE [c EXCEPT !.pc = "f_key", !.i = @ + 1,
                                                   !.todo = <<fbCache[c.i + 1].k>>]]
                /\ UNCHANGED fbCache
         [] c.pc = "f_key" ->
                /\ conc' = [conc EXCEPT ![p] =
                               IF ~DictHas(fbCache, Head(c.todo))
                               THEN ConcFail(c, "KeyError")
                               ELSE LET e == DictGet(fbCache, Head(c.todo))
                                    IN  [c EXCEPT !.pc = "f_min", !.todo = <<>>,
                                                  !.best = IF @.k = 0 \/ e.ts < @.ts
                                                           THEN [k |-> e.k, ts |-> e.ts]
                                                           ELSE @]]
                /\ UNCHANGED fbCache
         [] c.pc = "f_popmin" ->
                /\ fbCache' = DictDelAll(fbCache, {c.best.k})
                /\ conc' = [conc EXCEPT ![p] = ConcDone(c)]
         [] c.pc = "f_exc" ->
                /\ conc' = [conc EXCEPT ![p] =
                               IF DictHas(fbCache, c.key)
                               THEN [c EXCEPT !.pc = "f_exc_read"]
                               ELSE ConcDone(c)]
                /\ UNCHANGED fbCache
         [] c.pc = "f_exc_read" ->
                /\ conc' = [conc EXCEPT ![p] =
                               IF ~DictHas(fbCache, c.key) THEN ConcFail(c, "KeyError")
                               ELSE ConcDone(c)]
                /\ UNCHANGED fbCache
    /\ UNCHANGED <<now, ors, cache, cstat, caller, run, fn, app>>

\* time passes while the requests are served
ConcPause ==
    /\ now + LongPause <= StartTime + MaxTime
    /\ now' = now + LongPause
    /\ UNCHANGED <<fbCache, ors, cache, cstat, caller, run, conc, fn, app>>

(***************************************************************************)
(* Functions taken on their own.  fn holds the latest call: op, the        *)
(* function; in, its arguments; out, what it returned or raised.           *)
(***************************************************************************)
FnIdle == [op |-> "none", in |-> <<>>, out |-> <<>>]

\* the function op is called with in and answers out (one call in a behaviour)
FnCall(op, in, out) ==
    /\ fn.op = "none"
    /\ fn' = [op |-> op, in |-> in, out |-> out]
    /\ UNCHANGED <<now, fbCache, ors, cache, cstat, caller, run, conc, app>>

(***************************************************************************)
(* TierService.assign_tiers on its own.  The polygons are the three nested *)
(* ones of PolyA; zone 4 lies outside them all, zone 0 stands for missing  *)
(* coordinates.                                                            *)
(***************************************************************************)
TierCand(id, zone, fine) == [osmid |-> id, zone |-> zone, fine |-> fine, tier |-> 0]

\* the frames of candidates assign_tiers is called with
TierRows ==
    { <<>>,
      << TierCand(1, 1, 0) >>, << TierCand(1, 2, 0) >>, << TierCand(1, 3, 1) >>,
      << TierCand(1, 4, 0) >>,
      << TierCand(1, 1, 0), TierCand(2, 1, 0) >>,
      << TierCand(1, 2, 0), TierCand(2, 2, 1) >>,
      << TierCand(1, 3, 0), TierCand(2, 4, 1) >>,
      << TierCand(1, 0, 0) >>,
      << TierCand(1, 2, 0), TierCand(2, 0, 0) >> }

\* the groups of an isochrone list: the polygons of one interval
TierGroups ==
    { <<>>, << PolyA[1] >>, << PolyA[2] >>, << PolyA[3] >>,
      << PolyA[1], PolyA[2] >>, << PolyA[2], PolyA[1] >>, << PolyA[1], PolyA[3] >> }

RECURSIVE SeqsUpTo(_, _)
\* the sequences of at most n members of S
SeqsUpTo(S, n) ==
    IF n = 0 THEN { <<>> }
    ELSE LET shorter == SeqsUpTo(S, n - 1)
         IN  shorter \cup {Append(q, x) : q \in {t \in shorter : Len(t) = n - 1}, x \in S}

\* the isochrone lists assign_tiers is called with: None or a list of groups
TierIsoLists ==
    {Ret("None", <<>>, None)} \cup
    {Ret("value", l, None) : l \in SeqsUpTo(TierGroups, MaxGroups)}

\* tier_service.py line 15: None is as false as the empty list
ListOrNone(iso) == IF iso.kind = "None" THEN <<>> ELSE iso.val

TierCall ==
    \E rows \in TierRows, iso \in TierIsoLists :
        FnCall("assign_tiers", [rows |-> rows, iso |-> iso],
               AssignTiers(rows, ListOrNone(iso)))

(***************************************************************************)
(* RatingService.score on its own.  A rating is what _extract_rating       *)
(* parsed from the rating, stars or quality tag (-1: none of them parsed); *)
(* weights is the caller's override, <<>> for None.                        *)
(***************************************************************************)
ScoreRatings == (0 - 1)..MaxRatingSeen

ScoreTags == [TagKeys -> {"yes", "no", "absent"}]

ScoreWeights ==
    { <<>>,
      [rating |-> 0],
      [tier |-> 0, rating |-> 1, parking |-> 0, wheelchair |-> 0, kids |-> 0, pet |-> 0],
      [tier |-> 0, rating |-> 0, parking |-> 0, wheelchair |-> 0, kids |-> 0, pet |-> 0],
      [tier |-> 1, pet |-> 0 - 1] }

ScoreCall ==
    \E tier \in 0..MAX_TIER_VALUE, rating \in ScoreRatings, tags \in ScoreTags,
       weights \in ScoreWeights :
        FnCall("score",
               [row |-> [tier |-> tier, rating |-> rating, tags |-> tags],
                weights |-> weights],
               ScoreAccommodation([tier |-> tier, rating |-> rating, tags |-> tags],
                                  weights))

(***************************************************************************)
(* DaysExtractor.extract on its own.  A text is what stands in it before   *)
(* the day units and before the night units, and whether it has a half-day *)
(* word.                                                                   *)
(***************************************************************************)
Numerals ==
    {Numeral("arabic", v) : v \in 0..MaxNumeral} \cup
    {Numeral("chinese", v) : v \in 1..MaxNumeral}

DaysTexts ==
    [days : { <<>> } \cup { <<n>> : n \in Numerals },
     nights : { <<>> } \cup { <<n>> : n \in Numerals },
     half : BOOLEAN]

DaysCall ==
    \E text \in DaysTexts :
        FnCall("extract_days", text,
               ExtractDays(Query("text", ExtractPatternNumbers(text.days),
                                 ExtractPatternNumbers(text.nights), text.half,
                                 {}, <<>>, None, None)))

(***************************************************************************)
(* FilterExtractor.extract on its own.  A token and a keyword are          *)
(* sequences of characters; the characters are written by their readings   *)
(* (ting che: parking, che wei: parking space, lun yi: wheelchair, qin zi: *)
(* parent-child, gou: dog), x being a character of no keyword.             *)
(***************************************************************************)
\* FILTER_MAPPINGS, parser.py lines 161-166: the keywords over the characters above
FILTER_MAPPINGS ==
    [parking |-> { <<"ting", "che">>, <<"che", "wei">>, <<"ting", "che", "wei">> },
     wheelchair |-> { <<"lun", "yi">> },
     kids |-> { <<"qin", "zi">> },
     pet |-> { <<"gou">> }]

\* keyword in text
IsSubstring(keyword, text) ==
    \E i \in 0..(Len(text) - Len(keyword)) : SubSeq(text, i + 1, i + Len(keyword)) = keyword

RECURSIVE CombineTokens(_)
\* combine_tokens, utils.py lines 6-11
CombineTokens(tokens) ==
    IF tokens = <<>> THEN <<>> ELSE Head(tokens) \o CombineTokens(Tail(tokens))

\* FilterExtractor._has_matching_keyword, lines 200-208
\* (a variant that looks into the single tokens only)
HasMatchingKeyword_TokensOnly(keywords, tokens, combined_text) ==
    \E keyword \in keywords : \E i \in 1..Len(tokens) : IsSubstring(keyword, tokens[i])

HasMatchingKeyword(keywords, tokens, combined_text) ==
    \E keyword \in keywords :
        \/ IsSubstring(keyword, combined_text)
        \/ \E i \in 1..Len(tokens) : IsSubstring(keyword, tokens[i])

\* FilterExtractor.extract, lines 168-187, as the set of its result list
FilterExtract(tokens) ==
    IF tokens = <<>> THEN {}
    ELSE {c \in DOMAIN FILTER_MAPPINGS :
             HasMatchingKeyword(FILTER_MAPPINGS[c], tokens, CombineTokens(tokens))}

\* the tokens a tokenizer hands over
FilterTokens ==
    { <<"ting">>, <<"che">>, <<"wei">>, <<"ting", "che">>, <<"che", "wei">>,
      <<"lun", "yi">>, <<"qin">>, <<"zi">>, <<"gou">>, <<"x">> }

\* the orderings of the list s
Orderings(s) ==
    {[i \in 1..Len(s) |-> s[f[i]]] :
        f \in {g \in [1..Len(s) -> 1..Len(s)] :
                  \A a, b \in 1..Len(s) : a # b => g[a] # g[b]}}

FilterCall ==
    \E tokens \in SeqsUpTo(FilterTokens, MaxTokens) :
        FnCall("extract_filters", tokens, FilterExtract(tokens))

(***************************************************************************)
(* QueryParser.parse of one text in two processes.  A text is given by the *)
(* gazetteer names, the place and the filter keywords it holds; a process  *)
(* is given by the order in which its sets of strings iterate, which the   *)
(* string hashing of the process fixes.                                    *)
(***************************************************************************)
\* PoiExtractor.POI_KEYWORDS, parser.py lines 241-248: three of the names
POI_KEYWORDS == <<"aquarium", "castle", "street">>

\* PoiExtractor.extract, lines 250-268: list(found_pois) in a process whose
\* sets iterate in the order hash_order
PoiExtract(found_pois, hash_order) ==
    SelectSeq(hash_order, LAMBDA poi_name : poi_name \in found_pois)

PoiTexts ==
    [pois : SUBSET SeqSet(POI_KEYWORDS), place : {None, "okinawa"},
     filters : {{}, {"parking"}}]

ParseCall ==
    \E text \in PoiTexts, first \in Orderings(POI_KEYWORDS),
       second \in Orderings(POI_KEYWORDS) :
        LET parse(hash_order) ==
                LET parsed == ParseQuery(Query("text", <<2>>, <<1>>, FALSE, text.filters,
                                               PoiExtract(text.pois, hash_order),
                                               text.place, None))
                IN  [parsed |-> parsed,
                     key |-> BuildCacheKey(parsed.poi, parsed.place, parsed.filters, <<>>)]
        IN  FnCall("parse", [text |-> text, orders |-> <<first, second>>],
                   <<parse(first), parse(second)>>)

(***************************************************************************)
(* One geocoding call against a geocoder whose successive requests would   *)
(* be answered by answers[1], answers[2], ...                              *)
(***************************************************************************)
\* AppConfig.max_retry_attempts
max_retry_attempts == 3

\* What one request to the geocoder can end with; every failure of the
\* request is a requests RequestException (nominatim_client.py line 42)
GeoAnswers ==
    GeoOutcomes
    \cup {Outcome("Timeout", 0, <<>>, FALSE), Outcome("ConnectionError", 0, <<>>, FALSE)}
    \cup {Outcome("HTTPError", s, <<>>, FALSE) : s \in HttpStatuses}

\* GeocodeService.geocode_location over NominatimClient.geocode: one
\* requests.get (lines 27-32) in no loop, so the first answer is the only
\* one asked for; sent counts the requests made
GeocodeRequests(answers) ==
    [ret |-> GeocodeLocation(answers[1]), sent |-> Len(SubSeq(answers, 1, 1))]

GeocodeCall ==
    \E answers \in [1..max_retry_attempts -> GeoAnswers] :
        FnCall("geocode_location", answers, GeocodeRequests(answers))

(***************************************************************************)
(* One fetch_overpass call against a server whose successive requests      *)
(* would be answered by answers[1], answers[2], ...                        *)
(***************************************************************************)
\* What one request to the POI search can end with
OverpassAnswers ==
    {Outcome("ok", 200, <<>>, FALSE),
     Outcome("Timeout", 0, <<>>, FALSE), Outcome("ConnectionError", 0, <<>>, FALSE),
     Outcome("JSONDecodeError", 200, <<>>, FALSE)}
    \cup {Outcome("HTTPError", s, <<>>, FALSE) : s \in {404, 429, 500, 503, 504}}

RECURSIVE FetchOverpass(_, _)
\* fetch_overpass, lines 11-28, from pass number attempt on; sent counts the
\* requests made
FetchOverpass(answers, attempt) ==
    LET step == FetchOverpassStep(attempt, answers[attempt])
    IN  IF step.act = "continue"
        THEN FetchOverpass(answers, attempt + 1)
        ELSE [err |-> step.err, elements |-> answers[attempt].payload, sent |-> attempt]

FetchOverpassCall ==
    \E answers \in [1..OVERPASS_MAX_TRIES -> OverpassAnswers] :
        FnCall("fetch_overpass", answers, FetchOverpass(answers, 1))

(***************************************************************************)
(* The HTTP application (innsight_flask/__init__.py).  Rate limiting is    *)
(* flask_limiter's: a counter for each client address that is started by   *)
(* the address's first request, lives one minute, and answers 429 once it  *)
(* has passed the limit.                                                   *)
(***************************************************************************)
\* get_remote_address (line 43): the client addresses of the model
Addrs == {"10.0.0.1", "10.0.0.2"}

\* tracing._generate_trace_id, tracing.py lines 12-20: 'req_' and 8 hex digits
TraceIds == {"req_0000002a", "req_7f3a9b2c"}

\* what create_app hooks into the request handling: CORS (lines 23-30) and
\* the limiter (lines 42-46)
CreateAppExtensions == {"cors", "limiter"}

\* create_app lines 16-20 and 35-40: app.config['RATELIMIT_DEFAULT'];
\* test_config is the per-minute number of the limit string it holds, 0 when
\* it holds none.  kind tells a limit string from a list holding one.
\* (a variant in which the mapping passed in does not reach the limit)
RateLimitDefault_NoOverride(test_config, is_development) ==
    IF is_development THEN [kind |-> "str", n |-> 100] ELSE [kind |-> "list", n |-> 60]

RateLimitDefault(test_config, is_development) ==
    IF test_config # 0
    THEN [kind |-> "str", n |-> test_config]
    ELSE IF is_development THEN [kind |-> "str", n |-> 100] ELSE [kind |-> "list", n |-> 60]

AppIdle ==
    [created |-> FALSE, test_config |-> 0, is_development |-> FALSE,
     limit |-> 0, exts |-> {}, t |-> 0,
     hits |-> [a \in Addrs |-> 0], expiry |-> [a \in Addrs |-> 0],
     minute |-> [a \in Addrs |-> [start |-> 0, n |-> 0]],
     resp |-> [addr |-> "", status |-> 0, trace |-> "", nth |-> 0]]

\* create_app, lines 11-78.  default_limits is a list holding RATELIMIT_DEFAULT
\* (line 44): a limit string gives the limiter its limit; what the limiter
\* makes of a list inside the list is not in these sources, and limit 0
\* stands for it.
CreateApp ==
    /\ ~app.created
    /\ \E test_config \in 0..MaxLimit, is_development \in BOOLEAN :
          LET d == RateLimitDefault(test_config, is_development)
          IN  app' = [app EXCEPT !.created = TRUE,
                                 !.test_config = test_config,
                                 !.is_development = is_development,
                                 !.limit = IF d.kind = "str" THEN d.n ELSE 0,
                                 !.exts = CreateAppExtensions]
    /\ UNCHANGED <<now, fbCache, ors, cache, cstat, caller, run, conc, fn>>

\* one request from addr to /hello is handled: the before_request hooks (the
\* limiter's check; tracing._add_trace_id where RequestTracing was
\* initialised), the view, the after_request hooks (tracing._log_request)
HandleRequest(addr) ==
    /\ app.created
    /\ app.hits[addr] < app.limit + MaxOver
    /\ LET fresh == app.hits[addr] = 0 \/ app.expiry[addr] <= app.t
           hits == IF fresh THEN 1 ELSE app.hits[addr] + 1
           expiry == IF fresh THEN app.t + TicksPerMinute ELSE app.expiry[addr]
           m == app.minute[addr]
           minute == IF m.n = 0 \/ app.t >= m.start + TicksPerMinute
                     THEN [start |-> app.t, n |-> 1]
                     ELSE [m EXCEPT !.n = @ + 1]
       IN  \E trace_id \in IF "tracing" \in app.exts THEN TraceIds ELSE {""},
              unknown \in IF app.limit = 0 THEN {200, 429, 500} ELSE {0} :
              app' = [app EXCEPT
                        !.hits[addr] = hits,
                        !.expiry[addr] = expiry,
                        !.minute[addr] = minute,
                        !.resp = [addr |-> addr,
                                  status |-> IF "limiter" \notin app.exts THEN 200
                                             ELSE IF app.limit = 0 THEN unknown
                                             ELSE IF hits <= app.limit THEN 200 ELSE 429,
                                  trace |-> trace_id,
                                  nth |-> minute.n]]
    /\ UNCHANGED <<now, fbCache, ors, cache, cstat, caller, run, conc, fn>>

\* time passes between requests
AppTick ==
    /\ app.created
    /\ app.t < MaxAppTime
    /\ app' = [app EXCEPT !.t = @ + 1]
    /\ UNCHANGED <<now, fbCache, ors, cache, cstat, caller, run, conc, fn>>

vars == <<now, fbCache, ors, cache, cstat, caller, run, conc, fn, app>>

InitAll ==
    /\ now = StartTime
    /\ fbCache = <<>>
    /\ ors = OrsIdle
    /\ cache = <<>>
    /\ cstat = CstatInit
    /\ caller = CallerInit
    /\ run = RunIdle
    /\ conc = [p \in Procs |-> ConcIdle]
    /\ fn = FnIdle
    /\ app = AppIdle

OrsStep ==
    /\ \/ \E c \in Coords : SvcCall(c)
       \/ \E o \in Outcomes : TransportAttempt(o)
       \/ SvcReturn
    /\ UNCHANGED <<cache, cstat, caller, run, conc, fn, app>>

NextOrs ==
    \/ OrsStep
    \/ Tick

SpecOrs == InitAll /\ [][NextOrs]_vars

NextCache ==
    \/ \E k \in CacheKeys, r \in SampleResults : Put(k, r)
    \/ \E p \in Parts, i \in 0..MaxTop : MutateR(p, i)
    \/ \E k \in CacheKeys, n \in 1..(MaxTop + 1), dt \in {0, 1} : Get(k, n, dt)
    \/ \E p \in Parts, i \in 0..MaxTop : MutateReturned(p, i)
    \/ Tick

SpecCache == InitAll /\ [][NextCache]_vars

RunPause ==
    /\ run.pc \in {"idle", "done"}
    /\ now + LongPause <= StartTime + MaxTime
    /\ now' = now + LongPause
    /\ UNCHANGED <<fbCache, ors, cache, cstat, caller, run, conc, fn, app>>

Next ==
    \/ \E d \in Requests : RunStart(d)
    \/ \E o \in GeoOutcomes : RunGeocodeReturn(o)
    \/ \E o \in GeoOutcomes : RunGeocode2Return(o)
    \/ \E o \in OverpassOutcomes : RunOverpassAttempt(o)
    \/ RunIsoCall
    \/ RunIsoStep
    \/ RunIso1Return
    \/ RunIso2Return
    \/ RunPause

Spec == InitAll /\ [][Next]_vars

NextConc ==
    \/ \E p \in Procs, op \in ConcOps, k \in CacheKeys \cup Coords : ConcBegin(p, op, k)
    \/ \E p \in Procs : GetStep(p)
    \/ \E p \in Procs : CleanupStep(p)
    \/ \E p \in Procs : SaveStep(p)
    \/ \E p \in Procs, ok \in BOOLEAN : FbStep(p, ok)
    \/ ConcPause

SpecConc == InitAll /\ [][NextConc]_vars

SpecTier == InitAll /\ [][TierCall]_vars

SpecScore == InitAll /\ [][ScoreCall]_vars

SpecParser == InitAll /\ [][DaysCall \/ FilterCall \/ ParseCall]_vars

SpecApp == InitAll /\ [][CreateApp \/ (\E addr \in Addrs : HandleRequest(addr)) \/ AppTick]_vars

SpecClients == InitAll /\ [][GeocodeCall \/ FetchOverpassCall]_vars

(***************************************************************************)
(* C1: when the retried isochrone call fails with a timeout, a connection  *)
(* error, an HTTP error or a malformed body, the wrapped call returns the  *)
(* value cached for the same key if there is one, however old, and raises  *)
(* IsochroneError only when there is none; the fallback cache is left as   *)
(* it was when the call was made.                                          *)
(***************************************************************************)
FailedNetwork ==
    /\ ors.pc = "wrapped"
    /\ ors.n > 0
    /\ ors.last.kind \in {"Timeout", "ConnectionError", "HTTPError", "JSONDecodeError"}

C1_StaleFallback ==
    FailedNetwork =>
        /\ fbCache = ors.pre
        /\ IF DictHas(ors.pre, ors.key)
           THEN ors.wrapRet = Ret("value", DictGet(ors.pre, ors.key).val, None)
           ELSE ors.wrapRet = Ret("raise", <<>>, "IsochroneError")

\* a failed call served from an entry older than the TTL
C1_Witness ==
    /\ FailedNetwork
    /\ DictHas(ors.pre, ors.key)
    /\ ors.t0 - DictGet(ors.pre, ors.key).ts > FbTtl
    /\ ors.wrapRet.kind = "value"

(***************************************************************************)
(* C2: after _save_to_cache(key, R), a _get_from_cache(key, n) that hits   *)
(* returns R as it was at the moment of the put, its top cut to the first  *)
(* n entries: neither a later mutation of R nor anything else changes what *)
(* a later get of the key returns.                                         *)
(***************************************************************************)
C2_RoundTrip == caller.ret.kind = "hit" => caller.ret.asPut

(***************************************************************************)
(* C3: mutating a part of the value a hit returned does not change what a  *)
(* later _get_from_cache returns: two hits on the same stored entry with   *)
(* the same limit return equal values, whatever the caller did to the      *)
(* first one in between.                                                   *)
(***************************************************************************)
C3_NoLiveObject == caller.ret.kind = "hit" => caller.ret.same

(***************************************************************************)
(* C5: run with an empty query returns all-zero stats, an empty top and an *)
(* empty isochrone_geometry, makes no external call (geocoder, POI search, *)
(* isochrone provider) and leaves the result cache, the hit and miss       *)
(* counters and the last-cleanup time as they were.                        *)
(***************************************************************************)
C5_EmptyQuery ==
    (run.pc = "done" /\ run.q.text = "") =>
        /\ run.out = Ret("value", EmptyResult(BuildMainPoiData(UnknownPoi, None, 0)), None)
        /\ run.calls = <<>>
        /\ ors.pc = "idle"
        /\ cache = run.pre.cache
        /\ cstat = run.pre.cstat

\* an empty query answered while the result cache holds an entry
C5_Witness ==
    /\ run.pc = "done"
    /\ run.q.text = ""
    /\ run.pre.cache # <<>>
    /\ run.out.kind = "value"

(***************************************************************************)
(* C6, as claimed: run on a non-empty query that parse_query rejects (no   *)
(* POI and no place, a duration out of range or conflicting) fails with    *)
(* the ParseError, returning no result.                                    *)
(***************************************************************************)
C6_ParseErrorSurfaced ==
    (run.pc = "done" /\ run.parseErr # None) =>
        /\ run.out.kind = "raise"
        /\ run.out.err \in ParseErrors

(***************************************************************************)
(* C6, amended: run on a non-empty query that parse_query rejects raises   *)
(* nothing: it counts one parsing failure, makes no external call, neither *)
(* reads nor writes the result cache, and returns all-zero stats, an empty *)
(* top and an empty isochrone_geometry for the unknown POI.                *)
(***************************************************************************)
C6_ParseFailureDegrades ==
    (run.pc = "done" /\ run.parseErr # None) =>
        /\ run.out = Ret("value", EmptyResult(BuildMainPoiData(UnknownPoi, None, 0)), None)
        /\ run.calls = <<>>
        /\ cache = run.pre.cache
        /\ cstat = [run.pre.cstat EXCEPT !.parsing_failures = @ + 1]

\* a query with conflicting durations answered with the empty result
C6_Witness ==
    /\ run.pc = "done"
    /\ run.parseErr = "ParseConflictError"
    /\ run.q.pois # <<>>
    /\ run.out.kind = "value"

(***************************************************************************)
(* C7: when an isochrone call of run has every transport attempt fail and  *)
(* nothing is cached for it, run raises ServiceUnavailableError instead of *)
(* returning a result.                                                     *)
(***************************************************************************)
C7_IsochroneFailureSurfaced ==
    (run.pc = "done" /\ run.isoDown) =>
        run.out = Ret("raise", <<>>, "ServiceUnavailableError")

(***************************************************************************)
(* C8: when the search, tier, score and rank stage of run raises anything  *)
(* but a network, API, geocode or isochrone error, run raises nothing and  *)
(* returns all-zero stats, an empty top and an empty isochrone_geometry.   *)
(***************************************************************************)
C8_OtherExceptionsDegrade ==
    (/\ run.pc = "done"
     /\ run.exc # None
     /\ run.exc \notin {"NetworkError", "APIError", "GeocodeError", "IsochroneError"}) =>
        /\ run.out.kind = "value"
        /\ run.out.val.stats = ZeroStats
        /\ run.out.val.top = <<>>
        /\ run.out.val.isochrone_geometry = <<>>

\* a tier error raised over candidates that were found and isochrones that came
C8_Witness ==
    /\ run.pc = "done"
    /\ run.exc = "TierError"
    /\ run.rows # <<>>
    /\ run.out.kind = "value"

(***************************************************************************)
(* C9: with requests served concurrently, no operation on the result cache *)
(* or on the fallback cache fails on a map access: a lookup never reads or *)
(* deletes a key another request has just removed (KeyError), and a        *)
(* cleanup or purge never iterates a map whose size another request has    *)
(* changed since the iteration began (RuntimeError).                       *)
(***************************************************************************)
C9_NoCacheOperationFails == \A p \in Procs : conc[p].err = None

(***************************************************************************)
(* C10: in every run, a POI-search call or an isochrone call is made only  *)
(* when no geocode call is in flight, and for a coordinate a geocode call  *)
(* of the same run returned before.                                        *)
(***************************************************************************)
C10_GeocodeFirst ==
    \A i \in 1..Len(run.calls) :
        run.calls[i][1] \in {"overpass", "isochrone"} =>
            /\ run.calls[i][2] # 0
            /\ \E j \in 1..(i - 1) : run.calls[j] = <<"geocoded", run.calls[i][2]>>
            /\ Cardinality({j \in 1..(i - 1) : run.calls[j][1] = "geocode"})
                 = Cardinality({j \in 1..(i - 1) : run.calls[j][1] = "geocoded"})

\* a run whose first geocode call found nothing and whose searches used the
\* coordinate of the second
C10_Witness ==
    /\ run.pc = "done"
    /\ Len(run.calls) >= 5
    /\ run.calls[2] = <<"geocoded", 0>>
    /\ run.calls[4][1] = "geocoded"
    /\ run.calls[4][2] # 0
    /\ \E i \in 5..Len(run.calls) : run.calls[i] = <<"isochrone", run.calls[4][2]>>

(***************************************************************************)
(* C11: for a list of N >= 0 isochrone groups, innermost first, and any    *)
(* candidate with coordinates, the assigned tier is N - i, i being the     *)
(* smallest index (from 0) of a group whose polygon contains the           *)
(* candidate's point, and 0 when no group contains it; with an empty or    *)
(* null list every candidate gets tier 0 and nothing is raised.  Hence     *)
(* every tier lies in 0..N and candidates with identical coordinates get   *)
(* identical tiers.  (The polygon of a group is the one assign_tier keeps  *)
(* of it; a group has at least one polygon.)                               *)
(***************************************************************************)
TierGroupsOf(f) == ListOrNone(f.in.iso)

\* the groups (indexes from 1) whose polygon contains the point of row r
GroupsHolding(r, groups) == {j \in 1..Len(groups) : r.zone \in groups[j][1]}

TierWellFormed(f) ==
    /\ f.op = "assign_tiers"
    /\ Len(TierGroupsOf(f)) > 0
    /\ \A j \in 1..Len(TierGroupsOf(f)) : TierGroupsOf(f)[j] # <<>>
    /\ \A i \in 1..Len(f.in.rows) : f.in.rows[i].zone # 0

C11_TierIsInnermostGroup ==
    LET rows == fn.in.rows
        groups == TierGroupsOf(fn)
        N == Len(groups)
    IN  /\ (fn.op = "assign_tiers" /\ N = 0) =>
               /\ fn.out.err = None
               /\ Len(fn.out.rows) = Len(rows)
               /\ \A i \in 1..Len(rows) : fn.out.rows[i].tier = 0
        /\ TierWellFormed(fn) =>
               /\ fn.out.err = None
               /\ Len(fn.out.rows) = Len(rows)
               /\ \A i \in 1..Len(rows) :
                      /\ fn.out.rows[i].tier =
                             IF GroupsHolding(rows[i], groups) = {} THEN 0
                             ELSE N - (SetMin(GroupsHolding(rows[i], groups)) - 1)
                      /\ fn.out.rows[i].tier \in 0..N
               /\ \A i, k \in 1..Len(rows) :
                      (rows[i].zone = rows[k].zone /\ rows[i].fine = rows[k].fine)
                          => fn.out.rows[i].tier = fn.out.rows[k].tier

\* three groups, a candidate inside the second and the third but not the first,
\* beside a candidate inside none
C11_Witness ==
    /\ TierWellFormed(fn)
    /\ Len(TierGroupsOf(fn)) = 3
    /\ Len(fn.in.rows) = 2
    /\ GroupsHolding(fn.in.rows[1], TierGroupsOf(fn)) = {2, 3}
    /\ fn.out.rows[1].tier = 2
    /\ GroupsHolding(fn.in.rows[2], TierGroupsOf(fn)) = {}
    /\ fn.out.rows[2].tier = 0

(***************************************************************************)
(* C12: when a group consists of several polygons, a candidate is tested   *)
(* against every polygon of the group: a point contained in any polygon of *)
(* group i (from 0), not only in the first, gets a tier of at least N - i. *)
(***************************************************************************)
C12_EveryPolygonTested ==
    TierWellFormed(fn) =>
        \A i \in 1..Len(fn.in.rows), j \in 1..Len(TierGroupsOf(fn)) :
            (\E m \in 1..Len(TierGroupsOf(fn)[j]) :
                 fn.in.rows[i].zone \in TierGroupsOf(fn)[j][m])
                => fn.out.rows[i].tier >= Len(TierGroupsOf(fn)) - (j - 1)

(***************************************************************************)
(* C12, as the code has it: of a group of several polygons only the first  *)
(* is tested.  A point in the first polygon of group i gets a tier of at   *)
(* least N - i; a point that lies in no group's first polygon gets tier 0, *)
(* whatever other polygons of the groups contain it; and the tiers are the *)
(* ones the list gets with every group cut down to its first polygon.      *)
(***************************************************************************)
C12_FirstPolygonOnly ==
    TierWellFormed(fn) =>
        LET groups == TierGroupsOf(fn)
            N == Len(groups)
            firsts == [j \in 1..N |-> << groups[j][1] >>]
        IN  /\ \A i \in 1..Len(fn.in.rows) :
                   /\ \A j \in 1..N :
                          fn.in.rows[i].zone \in groups[j][1]
                              => fn.out.rows[i].tier >= N - (j - 1)
                   /\ (\A j \in 1..N : fn.in.rows[i].zone \notin groups[j][1])
                          => fn.out.rows[i].tier = 0
            /\ fn.out = AssignTiers(fn.in.rows, firsts)

\* a candidate in the second polygon of a group and in the first polygon of none
C12_Witness ==
    /\ TierWellFormed(fn)
    /\ \E i \in 1..Len(fn.in.rows) :
           /\ \E j \in 1..Len(TierGroupsOf(fn)) :
                  /\ Len(TierGroupsOf(fn)[j]) = 2
                  /\ fn.in.rows[i].zone \in TierGroupsOf(fn)[j][2]
           /\ \A j \in 1..Len(TierGroupsOf(fn)) :
                  fn.in.rows[i].zone \notin TierGroupsOf(fn)[j][1]
           /\ fn.out.rows[i].tier = 0

C14_DaysAndNights ==
    fn.op = "extract_days" =>
        /\ (/\ ~fn.in.half
             /\ Len(fn.in.days) = 1
             /\ Len(fn.in.nights) = 1
             /\ fn.in.days[1].value \in 2..MAX_DAYS
             /\ fn.in.nights[1].value = fn.in.days[1].value - 1)
                => fn.out = [err |-> None, days |-> fn.in.days[1].value]
        /\ (/\ ~fn.in.half
             /\ Len(fn.in.days) = 1
             /\ Len(fn.in.nights) = 1
             /\ fn.in.days[1].value >= 1
             /\ fn.in.nights[1].value = fn.in.days[1].value + 1)
                => fn.out = [err |-> None, days |-> 0]
        /\ (fn.out.err = None /\ fn.out.days # 0) => fn.out.days \in 1..MAX_DAYS

(***************************************************************************)
(* C15: for every token list, FilterExtractor.extract returns the same set *)
(* of categories for every permutation of the tokens, and extracting again *)
(* from the same tokens returns the same set.                              *)
(***************************************************************************)
C15_OrderIndependent ==
    fn.op = "extract_filters" =>
        /\ \A perm \in Orderings(fn.in) : FilterExtract(perm) = fn.out
        /\ FilterExtract(fn.in) = fn.out

(***************************************************************************)
(* C15, as the code has it: extract returns the categories that have a     *)
(* keyword in the concatenation of the tokens in the order given.  A       *)
(* category with a keyword inside one token is returned for every          *)
(* permutation of the tokens; a category whose keywords arise across token *)
(* boundaries only is not.  Extracting again returns the same set.         *)
(***************************************************************************)
C15_OrderOfConcatenation ==
    fn.op = "extract_filters" =>
        /\ \A c \in DOMAIN FILTER_MAPPINGS :
               c \in fn.out <=>
                   \E keyword \in FILTER_MAPPINGS[c] :
                       IsSubstring(keyword, CombineTokens(fn.in))
        /\ \A perm \in Orderings(fn.in) :
               \A c \in DOMAIN FILTER_MAPPINGS :
                   (\E keyword \in FILTER_MAPPINGS[c], i \in 1..Len(fn.in) :
                        IsSubstring(keyword, fn.in[i]))
                       => c \in FilterExtract(perm)
        /\ FilterExtract(fn.in) = fn.out

\* one category carried by a single token, another found across a boundary only:
\* a permutation loses the second and keeps the first
C15_Witness ==
    /\ fn.op = "extract_filters"
    /\ fn.out = {"parking", "kids"}
    /\ \E perm \in Orderings(fn.in) : FilterExtract(perm) = {"parking"}

(***************************************************************************)
(* C16: when the fallback cache holds, for the key of the call, an entry   *)
(* at most the TTL old, the wrapped isochrone call returns that entry and  *)
(* the transport is not invoked at all; the transport is invoked only when *)
(* there is no entry or the entry is older than the TTL.                   *)
(***************************************************************************)
C16_FreshEntryServed ==
    ors.pc \in {"attempt", "wrapped", "done"} =>
        LET held == DictHas(ors.pre, ors.key)
            fresh == held /\ ors.t0 - DictGet(ors.pre, ors.key).ts <= FbTtl
        IN  /\ fresh => /\ ors.pc # "attempt"
                         /\ ors.n = 0
                         /\ ors.wrapRet = Ret("value", DictGet(ors.pre, ors.key).val, None)
            /\ (ors.pc = "attempt" \/ ors.n > 0) =>
                   (~held \/ ors.t0 - DictGet(ors.pre, ors.key).ts > FbTtl)

\* an entry exactly the TTL old is served
C16_Witness ==
    /\ ors.pc = "wrapped"
    /\ DictHas(ors.pre, ors.key)
    /\ ors.t0 - DictGet(ors.pre, ors.key).ts = FbTtl
    /\ ors.n = 0
    /\ ors.wrapRet.kind = "value"

(***************************************************************************)
(* C17: whenever the underlying isochrone call fails, in whatever way, the *)
(* API-error outcome included, and the fallback cache holds a value for    *)
(* the key, the call returns that value and no error reaches the caller.   *)
(***************************************************************************)
C17_EveryFailureFallsBack ==
    (/\ ors.pc = "wrapped"
     /\ ors.n > 0
     /\ ors.last.kind # "ok"
     /\ DictHas(ors.pre, ors.key)) =>
        ors.wrapRet = Ret("value", DictGet(ors.pre, ors.key).val, None)

(***************************************************************************)
(* C17, as the code has it: the stale fallback covers the network-related  *)
(* failures only.  An API error reported in the response body ends the     *)
(* call at the first attempt and reaches the caller as an APIError,        *)
(* whether or not the fallback cache holds a value for the key; the cache  *)
(* is left as it was.                                                      *)
(***************************************************************************)
C17_ApiErrorPropagates ==
    (/\ ors.pc = "wrapped"
     /\ ors.n > 0
     /\ ors.last.kind = "APIError") =>
        /\ ors.wrapRet = Ret("raise", <<>>, "APIError")
        /\ fbCache = ors.pre

\* an API error raised past an entry held for the key
C17_Witness ==
    /\ ors.pc = "wrapped"
    /\ ors.n > 0
    /\ ors.last.kind = "APIError"
    /\ DictHas(ors.pre, ors.key)
    /\ ors.wrapRet.kind = "raise"

(***************************************************************************)
(* C18: a geocoding call whose request fails transiently (timeout,         *)
(* connection failure, HTTP 429 or 5xx) sends the request again, up to the *)
(* configured number of attempts, before the failure is surfaced: the      *)
(* requests go on until one does not fail transiently or the budget is     *)
(* spent.                                                                  *)
(***************************************************************************)
C18_GeocodeRetried ==
    fn.op = "geocode_location" =>
        LET transient(o) == \/ o.kind \in {"Timeout", "ConnectionError"}
                            \/ o.kind = "HTTPError" /\ Retryable(o.status)
            settled == {i \in 1..max_retry_attempts : ~transient(fn.in[i])}
                           \cup {max_retry_attempts}
        IN  fn.out.sent = CHOOSE i \in settled : \A j \in settled : i <= j

(***************************************************************************)
(* C19: fetch_overpass sends the request again after every transient       *)
(* failure (timeout, connection failure, HTTP 429, any HTTP 5xx status,    *)
(* malformed body) until max_tries requests have been made, and raises an  *)
(* HTTP error of any other status without a further request.               *)
(***************************************************************************)
C19_EveryTransientRetried ==
    fn.op = "fetch_overpass" =>
        LET transient(o) == \/ o.kind \in {"Timeout", "ConnectionError", "JSONDecodeError"}
                            \/ o.kind = "HTTPError" /\ Retryable(o.status)
            settled == {i \in 1..OVERPASS_MAX_TRIES : ~transient(fn.in[i])}
                           \cup {OVERPASS_MAX_TRIES}
            last == CHOOSE i \in settled : \A j \in settled : i <= j
        IN  /\ fn.out.sent = last
            /\ fn.in[last].kind = "HTTPError" => fn.out.err = "HTTPError"

(***************************************************************************)
(* C19, as the code has it: fetch_overpass sends the request again after a *)
(* timeout, a connection failure, an HTTP 429 and an HTTP 504 only, until  *)
(* max_tries requests have been made.  An HTTP error of any other status,  *)
(* 500 and 503 included, is raised as it is without a further request, and *)
(* a malformed body raises APIError without a further request.  When the   *)
(* last request allowed fails, a timeout or a connection failure raises    *)
(* NetworkError and an HTTP error is raised as it is.                      *)
(***************************************************************************)
C19_RetriesListedFailures ==
    fn.op = "fetch_overpass" =>
        LET again(o) == \/ o.kind \in {"Timeout", "ConnectionError"}
                        \/ o.kind = "HTTPError" /\ o.status \in {429, 504}
            settled == {i \in 1..OVERPASS_MAX_TRIES : ~again(fn.in[i])}
                           \cup {OVERPASS_MAX_TRIES}
            last == CHOOSE i \in settled : \A j \in settled : i <= j
            o == fn.in[last]
        IN  /\ fn.out.sent = last
            /\ fn.out.err = CASE o.kind = "ok" -> None
                               [] o.kind \in {"Timeout", "ConnectionError"} -> "NetworkError"
                               [] o.kind = "HTTPError" -> "HTTPError"
                               [] OTHER -> "APIError"
            /\ o.kind = "ok" => fn.out.elements = o.payload

\* a 429 answered by a second request, whose 500 is raised at once
C19_Witness ==
    /\ fn.op = "fetch_overpass"
    /\ fn.in[1] = Outcome("HTTPError", 429, <<>>, FALSE)
    /\ fn.in[2] = Outcome("HTTPError", 500, <<>>, FALSE)
    /\ fn.out.sent = 2
    /\ fn.out.err = "HTTPError"

(***************************************************************************)
(* C20: every parse of a text, in the same process or in another, returns  *)
(* the same primary POI, place, filter set and duration, also for a text   *)
(* that holds several gazetteer names, so that the text always maps to the *)
(* same cache key.                                                         *)
(***************************************************************************)
C20_ParseDeterministic ==
    fn.op = "parse" =>
        /\ fn.out[1].parsed = fn.out[2].parsed
        /\ fn.out[1].key = fn.out[2].key

C22_TraceHeader ==
    app.resp.status # 0 => app.resp.trace \in TraceIds

(***************************************************************************)
(* C23: for lookups made one at a time, two executed cleanups are at least *)
(* cleanup_interval apart, and a cleanup invoked less than                 *)
(* cleanup_interval after the last executed one changes neither the        *)
(* last-cleanup time nor the cache: such a lookup removes nothing but the  *)
(* expired entry it looked up.                                             *)
(***************************************************************************)
C23_CleanupThrottled ==
    [][cstat' # cstat =>
          LET removed == {i \in 1..Len(cache) : ~DictHas(cache', cache[i].k)}
          IN  /\ cstat'.last_cleanup_time # cstat.last_cleanup_time =>
                    /\ cstat'.last_cleanup_time = now'
                    /\ now' - cstat.last_cleanup_time >= CleanupInterval
              /\ now' - cstat.last_cleanup_time < CleanupInterval =>
                    /\ cstat'.last_cleanup_time = cstat.last_cleanup_time
                    /\ Cardinality(removed) <= 1
                    /\ \A i \in removed : /\ now - cache[i].ts > CacheTtl
                                           /\ caller'.ret.kind = "miss"
                                           /\ DictHas(cache, cache[i].k)
                    /\ \A i \in 1..Len(cache') : \E j \in 1..Len(cache) : cache'[i] = cache[j]
      ]_vars

\* the second lookup found its cleanup throttled and left the cache over its
\* capacity
C23_Witness ==
    /\ cstat.cache_hits + cstat.cache_misses = 2
    /\ now - cstat.last_cleanup_time < CleanupInterval
    /\ Len(cache) > CacheMaxSize

(***************************************************************************)
(* C24: whenever a cleanup of the result cache executes, afterwards the    *)
(* cache holds no entry older than the TTL and at most cache_max_size      *)
(* entries; every entry removed for capacity was stored no later than      *)
(* every entry that remains; and nothing is removed when the cache was     *)
(* within its capacity and nothing had expired.                            *)
(***************************************************************************)
C24_CleanupResult ==
    [][cstat'.last_cleanup_time # cstat.last_cleanup_time =>
          LET removed == {i \in 1..Len(cache) : ~DictHas(cache', cache[i].k)}
              expired == {i \in 1..Len(cache) : now' - cache[i].ts > CacheTtl}
          IN  /\ \A j \in 1..Len(cache') : now' - cache'[j].ts <= CacheTtl
              /\ Len(cache') <= CacheMaxSize
              /\ \A i \in removed \ expired :
                     \A j \in 1..Len(cache') : cache[i].ts <= cache'[j].ts
              /\ (Len(cache) <= CacheMaxSize /\ expired = {}) => cache' = cache
              /\ \A j \in 1..Len(cache') : \E i \in 1..Len(cache) : cache'[j] = cache[i]
      ]_vars

\* a hit whose entry, not expired, the cleanup of that very lookup removed
\* for capacity
C24_Witness ==
    /\ caller.ret.kind = "hit"
    /\ ~DictHas(cache, caller.ret.key)
    /\ cstat.last_cleanup_time = now
    /\ now - StartTime <= CacheTtl
    /\ Len(cache) = CacheMaxSize

(***************************************************************************)
(* C25: _get_from_cache on a key whose entry was stored more than the TTL  *)
(* before the lookup returns a miss, and the entry is absent afterwards; a *)
(* hit is returned only for an entry stored at most the TTL before the     *)
(* lookup, and is that entry's value, whatever the cleanup of the lookup   *)
(* does.                                                                   *)
(***************************************************************************)
C25_ExpiredIsMiss ==
    [][cstat' # cstat =>
          LET key == caller'.ret.key
              held == DictHas(cache, key)
          IN  /\ (held /\ now - DictGet(cache, key).ts > CacheTtl) =>
                    /\ caller'.ret.kind = "miss"
                    /\ ~DictHas(cache', key)
              /\ caller'.ret.kind = "hit" =>
                    /\ held
                    /\ now - DictGet(cache, key).ts <= CacheTtl
                    /\ caller'.ret.oid = DictGet(cache, key).oid
              /\ ~held => caller'.ret.kind = "miss"
      ]_vars

\* the one entry ever put was found expired by a lookup whose cleanup was
\* throttled: the lookup itself removed it
C25_Witness ==
    /\ cstat.cache_hits + cstat.cache_misses = 2
    /\ caller.ret.kind = "miss"
    /\ caller.oids = 2
    /\ cache = <<>>
    /\ cstat.last_cleanup_time < now
    /\ now - cstat.last_cleanup_time < CleanupInterval

(***************************************************************************)
(* C26: a run in which parsing failed, or the search stage raised, or an   *)
(* isochrone call had every transport attempt fail with nothing cached to  *)
(* serve, leaves no new or updated entry in the result cache: every entry  *)
(* held when it ends was held, unchanged, when it began.                   *)
(***************************************************************************)
C26_NoStoreOnFailure ==
    (/\ run.pc = "done"
     /\ \/ cstat.parsing_failures > run.pre.cstat.parsing_failures
        \/ run.exc # None
        \/ run.isoDown) =>
        \A i \in 1..Len(cache) : \E j \in 1..Len(run.pre.cache) : cache[i] = run.pre.cache[j]

C28_BackoffSchedule ==
    /\ [](/\ Len(ors.sleeps) > 0 => ors.sleeps[1] = DEFAULT_RETRY_DELAY
          /\ \A k \in 2..Len(ors.sleeps) :
                 ors.sleeps[k] = ors.sleeps[k - 1] * DEFAULT_BACKOFF_MULTIPLIER
          /\ ors.pc = "attempt" => Len(ors.sleeps) = ors.n
          /\ (ors.pc \in {"wrapped", "done"} /\ ors.n > 0) =>
                 Len(ors.sleeps) = ors.n - 1
          /\ (ors.pc \in {"wrapped", "done"} /\ ors.retryErr # None
                  /\ IsTransient(ors.last)) =>
                 /\ ors.n = DEFAULT_MAX_ATTEMPTS
                 /\ Len(ors.sleeps) = DEFAULT_MAX_ATTEMPTS - 1)
    /\ [][Len(ors'.sleeps) > Len(ors.sleeps) => fbCache' = fbCache]_vars

\* a call that exhausted its attempts on transient failures
C28_Witness ==
    /\ ors.pc = "wrapped"
    /\ ors.retryErr # None
    /\ IsTransient(ors.last)
    /\ ors.n = DEFAULT_MAX_ATTEMPTS
    /\ ors.sleeps = <<DEFAULT_RETRY_DELAY, DEFAULT_RETRY_DELAY * DEFAULT_BACKOFF_MULTIPLIER>>

(***************************************************************************)
(* C29: a run answered from the result cache returns the top list and the  *)
(* stats that the whole pipeline would return for the run's top_n on the   *)
(* transport answers the stored entry was computed from: the ranking cut   *)
(* to top_n, and the tier counts of that cut.                              *)
(***************************************************************************)
C29_CacheTransparent ==
    (/\ run.pc = "done"
     /\ cstat.cache_hits > run.pre.cstat.cache_hits
     /\ DictHas(run.ranked, run.cache_key)) =>
        LET full == DictGet(run.ranked, run.cache_key).rows
            uncached == IF run.top_n > 0 THEN Take(full, run.top_n) ELSE full
        IN  /\ run.out.val.top = SerializeGdf(uncached)
            /\ run.out.val.stats = CalculateTierStats(uncached)

(***************************************************************************)
(* C30: one call of get_isochrones_with_fallback invokes the isochrone     *)
(* transport at most max_attempts times, however the call ends.            *)
(***************************************************************************)
C30_TransportAttemptsBounded == ors.total <= DEFAULT_MAX_ATTEMPTS

(***************************************************************************)
(* C4: one call through retry_on_network_error invokes the transport at    *)
(* most max_attempts times; it returns the result of the first successful  *)
(* attempt and attempts nothing after it; when every attempt fails         *)
(* transiently it makes exactly max_attempts attempts and then raises; an  *)
(* HTTP error with any other status ends the call at once.                 *)
(***************************************************************************)
C4_RetryBudget ==
    /\ ors.n <= DEFAULT_MAX_ATTEMPTS
    /\ ~ors.extra
    /\ ors.pc = "attempt" => ors.n < DEFAULT_MAX_ATTEMPTS
    /\ (ors.pc = "wrapped" /\ ors.n > 0) =>
          /\ ors.last.kind = "ok" =>
                ors.retryErr = None /\ ors.wrapRet = Ret("value", ors.last.payload, None)
          /\ IsTransient(ors.last) =>
                ors.n = DEFAULT_MAX_ATTEMPTS /\ ors.retryErr # None
    /\ (ors.n > 0 /\ ors.last.kind = "HTTPError" /\ ~Retryable(ors.last.status)) =>
          ors.pc # "attempt" /\ ors.retryErr = "HTTPError"

\* every attempt failed transiently and the budget is spent
C4_Witness ==
    /\ ors.pc = "wrapped"
    /\ ors.n = DEFAULT_MAX_ATTEMPTS
    /\ IsTransient(ors.last)
    /\ ors.retryErr # None

====
